---- MODULE Spec2Model ----
(***************************************************************************)
(* Model of the Dexcell extraction pipeline (dexcell_extractor.py):        *)
(*   - the retry-aware HTTP client  _make_request_with_retry,              *)
(*   - the per-task worker          _extract_device_data,                  *)
(*   - the extraction engine        extract_data (sequential and pool),    *)
(*   - the result store             save_to_csv / get_summary.             *)
(*                                                                         *)
(* Two specifications are given.  SpecRetry is one call of the HTTP client *)
(* against a mocked transport that records every request, sleep and the    *)
(* way the call ended.  Spec is the whole extractor object: construction,  *)
(* extract_data with its tasks running the same client steps, and the two  *)
(* public readers of self.results.                                         *)
(*                                                                         *)
(* A reading carries no extraction_date here: the code stamps it with      *)
(* datetime.now(), which no claim compares.                                *)
(***************************************************************************)
EXTENDS Bags, FiniteSets, Integers, Sequences, TLC

(* ------------------------------ bounds -------------------------------- *)
MaxApiKeys == 2
MaxDevices == 2
MaxTasks == 2
MaxValues == 2
MaxWorkers == 2

(* ------------------------- program constants -------------------------- *)
max_retries == 3
base_wait == 1
max_wait == 30

(* ------------------------------ helpers ------------------------------- *)
RECURSIVE Pow(_, _)
Pow(b, e) == IF e = 0 THEN 1 ELSE b * Pow(b, e - 1)

Min(a, b) == IF a < b THEN a ELSE b

RECURSIVE Concat(_)
Concat(ss) == IF ss = <<>> THEN <<>> ELSE Head(ss) \o Concat(Tail(ss))

RECURSIVE SeqToBag(_)
SeqToBag(s) == IF s = <<>> THEN EmptyBag ELSE SetToBag({Head(s)}) (+) SeqToBag(Tail(s))

SeqsUpTo(S, n) == UNION {[1..k -> S] : k \in 0..n}

(* --------------------- the API's possible answers --------------------- *)
\* One record of a response's 'values' array.  is_obj = FALSE is a JSON
\* value that is not an object (a number); has_ts / has_v say whether the
\* 'ts' / 'v' keys are present.
GoodItems ==
    { [is_obj |-> TRUE, has_ts |-> TRUE, has_v |-> TRUE, ts |-> 1, v |-> 0],
      [is_obj |-> TRUE, has_ts |-> TRUE, has_v |-> TRUE, ts |-> 2, v |-> -5] }

BadItems ==
    { [is_obj |-> TRUE, has_ts |-> FALSE, has_v |-> TRUE, ts |-> 0, v |-> 7],
      [is_obj |-> TRUE, has_ts |-> TRUE, has_v |-> FALSE, ts |-> 3, v |-> 0],
      [is_obj |-> FALSE, has_ts |-> FALSE, has_v |-> FALSE, ts |-> 0, v |-> 0] }

Items == GoodItems \cup BadItems

\* A response body.  json: "object" (a JSON object), "scalar" (null, a
\* number, a boolean), "invalid" (not JSON), "none" (not read).
NoBody == [json |-> "none", has_values |-> FALSE, is_list |-> FALSE, values |-> <<>>]

ObjectBody(vs) == [json |-> "object", has_values |-> TRUE, is_list |-> TRUE, values |-> vs]

NullValuesBody == [json |-> "object", has_values |-> TRUE, is_list |-> FALSE, values |-> <<>>]

NoValuesBody == [json |-> "object", has_values |-> FALSE, is_list |-> FALSE, values |-> <<>>]

ScalarBody == [json |-> "scalar", has_values |-> FALSE, is_list |-> FALSE, values |-> <<>>]

InvalidBody == [json |-> "invalid", has_values |-> FALSE, is_list |-> FALSE, values |-> <<>>]

WellFormedBodies == {ObjectBody(vs) : vs \in SeqsUpTo(Items, MaxValues)} \cup {NullValuesBody}

Bodies == WellFormedBodies \cup {NoValuesBody, ScalarBody, InvalidBody}

RetryStatuses == {429, 500, 502, 503, 504}

OtherStatuses == {204, 403, 404}

\* What one requests.get can end in: a response with a status code (and a
\* body when 200), a Timeout, or another RequestException.
Outcomes ==
    {[kind |-> "response", status |-> 200, body |-> b] : b \in Bodies}
    \cup {[kind |-> "response", status |-> s, body |-> NoBody] :
             s \in {401} \cup RetryStatuses \cup OtherStatuses}
    \cup {[kind |-> "timeout", status |-> 0, body |-> NoBody],
          [kind |-> "error", status |-> 0, body |-> NoBody]}

\* The exception class response.json() raises on a body that is not JSON:
\* a RequestException subclass in current requests, a plain ValueError in
\* older ones.  The build decides; both are possible.
JsonErrors == {"RequestException", "ValueError"}

(* ------------------ _make_request_with_retry, one attempt ------------- *)
\* Mutant: '*' for '**' in the rate-limit back-off.
RateLimitWaitTimes(attempt) == Min(base_wait * (3 * attempt), max_wait)

RateLimitWait(attempt) == Min(base_wait * Pow(3, attempt), max_wait)

ServerErrorWait(attempt) == Min(base_wait * Pow(2, attempt), max_wait)

ExceptionWait(attempt) == base_wait * Pow(2, attempt)

\* Mutant: the except-branches sleep after the last attempt too.
OnRequestExceptionSleepsLast(attempt) ==
    [act |-> "sleep", wait |-> ExceptionWait(attempt), body |-> NoBody]

\* The except-branches: sleep only if attempts remain, then continue.
OnRequestException(attempt) ==
    IF attempt < max_retries - 1
    THEN [act |-> "sleep", wait |-> ExceptionWait(attempt), body |-> NoBody]
    ELSE [act |-> "continue", wait |-> 0, body |-> NoBody]

\* The if/elif chain on response.status_code.
StatusBranch(status) ==
    CASE status = 200 -> "ok"
      [] status = 401 -> "unauthorized"
      [] status = 429 -> "rate_limited"
      [] status \in {500, 502, 503, 504} -> "server_error"
      [] OTHER -> "other"

\* The 200 branch: response.json(), then the 'values' check.  A body that
\* is not JSON makes json() raise (je says which class); a JSON scalar makes
\* "'values' not in data" raise TypeError.
OnOk(attempt, body, je) ==
    IF body.json = "invalid"
    THEN IF je = "RequestException"
         THEN OnRequestException(attempt)
         ELSE [act |-> "raise", wait |-> 0, body |-> NoBody]
    ELSE IF body.json = "scalar"
    THEN [act |-> "raise", wait |-> 0, body |-> NoBody]
    ELSE IF ~body.has_values
    THEN [act |-> "return", wait |-> 0, body |-> NoBody]
    ELSE [act |-> "return", wait |-> 0, body |-> body]

\* The body of the for-loop for one outcome of requests.get: what the
\* attempt does next.  act: "return" (body = NoBody is None), "raise",
\* "sleep" (then continue), "continue".
AttemptStep(attempt, o, je) ==
    IF o.kind = "response"
    THEN LET b == StatusBranch(o.status)
         IN  CASE b = "ok" -> OnOk(attempt, o.body, je)
               [] b = "unauthorized" -> [act |-> "return", wait |-> 0, body |-> NoBody]
               [] b = "rate_limited" ->
                     [act |-> "sleep", wait |-> RateLimitWait(attempt), body |-> NoBody]
               [] b = "server_error" ->
                     [act |-> "sleep", wait |-> ServerErrorWait(attempt), body |-> NoBody]
               [] OTHER -> [act |-> "return", wait |-> 0, body |-> NoBody]
    ELSE OnRequestException(attempt)

\* The client's position after an attempt's step or after a sleep: the next
\* attempt, or, once range(max_retries) is exhausted, return None.
AfterContinue(attempt) ==
    IF attempt + 1 < max_retries
    THEN [st |-> "request", attempt |-> attempt + 1]
    ELSE [st |-> "returned", attempt |-> attempt + 1]

(* ------------------- the client's position in a call ------------------ *)
\* st: "idle", "request" (about to call requests.get), "sleep" (inside
\* time.sleep(wait)), "returned" (ret = NoBody is None), "raised".
IdleClient == [st |-> "idle", attempt |-> 0, wait |-> 0, ret |-> NoBody]

ClientCall == [st |-> "request", attempt |-> 0, wait |-> 0, ret |-> NoBody]

ClientRequest(c, o, je) ==
    LET s == AttemptStep(c.attempt, o, je)
        n == AfterContinue(c.attempt)
    IN  CASE s.act = "return" ->
                [st |-> "returned", attempt |-> c.attempt, wait |-> 0, ret |-> s.body]
          [] s.act = "raise" ->
                [st |-> "raised", attempt |-> c.attempt, wait |-> 0, ret |-> NoBody]
          [] s.act = "sleep" ->
                [st |-> "sleep", attempt |-> c.attempt, wait |-> s.wait, ret |-> NoBody]
          [] OTHER ->
                [st |-> n.st, attempt |-> n.attempt, wait |-> 0, ret |-> NoBody]

ClientSleep(c) ==
    LET n == AfterContinue(c.attempt)
    IN  [st |-> n.st, attempt |-> n.attempt, wait |-> 0, ret |-> NoBody]

ClientEnded(c) == c.st \in {"returned", "raised"}

(* ------------------------ _extract_device_data ------------------------ *)
Reading(task, item) ==
    [client_name |-> task.client_name, device_id |-> task.device_id,
     device_name |-> task.device_name, param_key |-> task.param_key,
     timestamp |-> item.ts, value |-> item.v]

\* The loop over response_data['values']: a record that is no object makes
\* "'ts' not in item" raise; a record without 'ts' or 'v' is skipped.
RECURSIVE ProcessValues(_, _, _)
ProcessValues(task, vs, acc) ==
    IF vs = <<>> THEN [exc |-> FALSE, res |-> acc]
    ELSE IF ~Head(vs).is_obj THEN [exc |-> TRUE, res |-> <<>>]
    ELSE IF ~Head(vs).has_ts \/ ~Head(vs).has_v THEN ProcessValues(task, Tail(vs), acc)
    ELSE ProcessValues(task, Tail(vs), Append(acc, Reading(task, Head(vs))))

\* What the task ends in, given how the client's call ended: exc (an
\* exception leaves _extract_device_data), res (the list it returns), ok
\* (the client returned a payload, not None).
ExtractResult(task, c) ==
    IF c.st = "raised" THEN [exc |-> TRUE, res |-> <<>>, ok |-> FALSE]
    ELSE IF c.ret = NoBody THEN [exc |-> FALSE, res |-> <<>>, ok |-> FALSE]
    ELSE IF ~c.ret.is_list THEN [exc |-> TRUE, res |-> <<>>, ok |-> TRUE]
    ELSE LET p == ProcessValues(task, c.ret.values, <<>>)
         IN  [exc |-> p.exc, res |-> p.res, ok |-> TRUE]

(* --------------------------- configuration ---------------------------- *)
KeyEntries ==
    { [token |-> "tok1", has_client_name |-> TRUE, client_name |-> "ClientA"],
      [token |-> "tok2", has_client_name |-> FALSE, client_name |-> ""] }

DeviceEntries ==
    { [device_id |-> 1, name |-> "dev1", param |-> "EACTIVE"],
      [device_id |-> 2, name |-> "dev2", param |-> "TEMP"] }

ParamKeys == {"EACTIVE", "TEMP"}

\* A configuration _load_config accepts.  has_dates: start_date and
\* end_date are present (the loader does not require them).
Configs ==
    [api_keys : SeqsUpTo(KeyEntries, MaxApiKeys),
     devices : SeqsUpTo(DeviceEntries, MaxDevices),
     params : SUBSET ParamKeys,
     has_dates : BOOLEAN]

ClientName(key) == IF key.has_client_name THEN key.client_name ELSE "Unknown Client"

\* Mutant: the whitelist check dropped from the task loop.
RECURSIVE TasksForKeyNoFilter(_, _, _)
TasksForKeyNoFilter(key, devices, params) ==
    IF devices = <<>> THEN <<>>
    ELSE <<[token |-> key.token, client_name |-> ClientName(key),
            device_id |-> Head(devices).device_id, device_name |-> Head(devices).name,
            param_key |-> Head(devices).param]>>
         \o TasksForKeyNoFilter(key, Tail(devices), params)

RECURSIVE TasksForKey(_, _, _)
TasksForKey(key, devices, params) ==
    IF devices = <<>> THEN <<>>
    ELSE IF Head(devices).param \notin params THEN TasksForKey(key, Tail(devices), params)
    ELSE <<[token |-> key.token, client_name |-> ClientName(key),
            device_id |-> Head(devices).device_id, device_name |-> Head(devices).name,
            param_key |-> Head(devices).param]>>
         \o TasksForKey(key, Tail(devices), params)

RECURSIVE BuildTasks(_, _, _)
BuildTasks(api_keys, devices, params) ==
    IF api_keys = <<>> THEN <<>>
    ELSE TasksForKey(Head(api_keys), devices, params)
         \o BuildTasks(Tail(api_keys), devices, params)

(* ------------------------- the configuration file -------------------- *)
\* The top-level keys of the configuration file format and the keys of a
\* device entry.
ConfigFields == {"api_keys", "params", "request_type", "start_date", "end_date", "devices"}

DeviceFields == {"device_id", "name", "param"}

RequestTypes == {"hourly", "monthly", "daily"}

\* A file in client_configs/: it may be missing, may not be JSON, may lack
\* top-level keys (absent), and its last device entry may lack keys
\* (device_absent).  The other entries are those of Configs.
ConfigFiles ==
    [exists : BOOLEAN,
     valid_json : BOOLEAN,
     absent : {{}} \cup {{f} : f \in ConfigFields} \cup {{"start_date", "end_date"}},
     request_type : RequestTypes,
     device_absent : {{}} \cup {{f} : f \in DeviceFields},
     api_keys : SeqsUpTo(KeyEntries, MaxApiKeys),
     devices : SeqsUpTo(DeviceEntries, MaxDevices),
     params : SUBSET ParamKeys]

Accepted(cfg) == [ok |-> TRUE, error |-> "none", config |-> cfg]

Rejected(e) ==
    [ok |-> FALSE, error |-> e,
     config |-> [api_keys |-> <<>>, devices |-> <<>>, params |-> {}, has_dates |-> FALSE]]

\* Mutant: the loader also requires start_date and end_date.
RequiredFieldsWithDates == {"api_keys", "params", "request_type", "devices", "start_date", "end_date"}

\* _load_config, line 94: required_fields.
RequiredFields == {"api_keys", "params", "request_type", "devices"}

\* _load_config: FileNotFoundError, ValueError for invalid JSON, for a
\* missing required field, for a request_type other than monthly/hourly and
\* for a device entry lacking device_id, name or param; anything else is
\* returned as the configuration.
LoadConfig(f) ==
    IF ~f.exists THEN Rejected("FileNotFoundError")
    ELSE IF ~f.valid_json THEN Rejected("ValueError")
    ELSE IF f.absent \cap RequiredFields # {} THEN Rejected("ValueError")
    ELSE IF f.request_type \notin {"monthly", "hourly"} THEN Rejected("ValueError")
    ELSE IF f.devices # <<>> /\ f.device_absent # {} THEN Rejected("ValueError")
    ELSE Accepted([api_keys |-> f.api_keys, devices |-> f.devices, params |-> f.params,
                   has_dates |-> f.absent \cap {"start_date", "end_date"} = {}])

\* The file a loaded configuration was read from.
FileOf(cfg) ==
    [exists |-> TRUE, valid_json |-> TRUE,
     absent |-> IF cfg.has_dates THEN {} ELSE {"start_date", "end_date"},
     request_type |-> "hourly", device_absent |-> {},
     api_keys |-> cfg.api_keys, devices |-> cfg.devices, params |-> cfg.params]

(* ------------------------------- state -------------------------------- *)
VARIABLES
    config,        \* self.config, as loaded by the constructor
    max_workers,   \* self.max_workers
    results,       \* self.results
    lock,          \* holder of self._results_lock: "free" or "main"
    pc,            \* the caller's position: "new" / "rejected" around the
                   \* constructor, "idle", inside extract_data ("seq",
                   \* "submit", "collect", "extend"), "done", "raised";
                   \* "exited" after the workflow script's exit(1)
    tasks,         \* extract_data's task list
    all_results,   \* extract_data's local all_results
    failed_tasks,  \* extract_data's local failed_tasks
    cur,           \* sequential loop index / the future being merged
    submitted,     \* number of tasks handed to executor.submit
    completed,     \* futures as_completed has yielded
    fut,           \* per task: st "new" | "queued" | "running" | "finished",
                   \* the client's position, and the task's outcome
    report,        \* the end-of-run summary extract_data logs
    csv,           \* the extracted-data CSV in outputs/
    save_log,      \* how the last save_to_csv call ended
    summary,       \* what the last get_summary call returned
    client,        \* SpecRetry: the position of the one client call
    mock,          \* SpecRetry: the mocked transport's record of events
    config_file,   \* the JSON file in client_configs/ the constructor reads
    analyzer,      \* SpecAnalysis: the analyzer class in use ("quality",
                   \* "trend", "out_of_hours"; "none" elsewhere)
    a_config_file, \* the JSON file the analyzer is given
    a_csv_file,    \* the CSV file the analyzer is given
    threshold,     \* the constructor's threshold argument
    apc,           \* "new", "ready" (constructed), "rejected" (constructor raised)
    a_error,       \* the last call on the analyzer and the exception it raised
    a_reads,       \* the files read so far
    window,        \* self.analysis_start_date / self.analysis_end_date
    data,          \* self.data
    a_results,     \* self.results
    analyzed,      \* the analysis method has returned
    reports,       \* the report files in outputs/
    call_args,     \* SpecTrend, SpecHours: the arguments of the one call;
                   \* SpecRerun: self.results as it was when the running
                   \* extract_data call began
    call_result    \* its return value, <<>> before the call

vars == <<config, max_workers, results, lock, pc, tasks, all_results, failed_tasks,
          cur, submitted, completed, fut, report, csv, save_log, summary, client, mock,
          config_file, analyzer, a_config_file, a_csv_file, threshold, apc,
          a_error, a_reads, window, data, a_results, analyzed, reports,
          call_args, call_result>>

analysis_vars == <<analyzer, a_config_file, a_csv_file, threshold, apc, a_error,
                   a_reads, window, data, a_results, analyzed, reports,
                   call_args, call_result>>

engine_vars == <<config, max_workers, results, lock, pc, tasks, all_results,
                 failed_tasks, cur, submitted, completed, fut, report, csv,
                 save_log, summary, config_file>>

NoWindow == [start |-> 0, end |-> 0]

NoReports == [csv |-> "absent", txt |-> "absent"]

\* The last call on the analyzer and the exception that left it ("none" when
\* it returned).
Call(name, error) == [call |-> name, error |-> error]

\* No analyzer exists (the specifications of the extractor).
NoAnalyzer ==
    /\ analyzer = "none"
    /\ a_config_file = <<>>
    /\ a_csv_file = <<>>
    /\ threshold = 0
    /\ apc = "new"
    /\ a_error = Call("none", "none")
    /\ a_reads = {}
    /\ window = NoWindow
    /\ data = <<>>
    /\ a_results = <<>>
    /\ analyzed = FALSE
    /\ reports = NoReports
    /\ call_args = <<>>
    /\ call_result = <<>>

\* A file of outputs/: its complete data rows, and whether it ends in a row
\* cut in the middle of its line.
NoFile == [exists |-> FALSE, rows |-> <<>>, cut |-> FALSE]

\* A CSV left in outputs/ by an earlier run of the workflow.
StaleFile ==
    [exists |-> TRUE,
     rows |-> <<[client_name |-> "ClientA", device_id |-> 1, device_name |-> "dev1",
                 param_key |-> "EACTIVE", timestamp |-> 0, value |-> 9]>>,
     cut |-> FALSE]

NoReport == [logged |-> FALSE, total_tasks |-> 0, successful |-> 0, failed |-> 0,
             rate_num |-> 0, rate_den |-> 1, records |-> 0]

NoSummary == [called |-> FALSE, has_data |-> FALSE, total_records |-> 0,
              clients |-> {}, devices_count |-> 0, params |-> {},
              rate_num |-> 0, rate_den |-> 1]

NewFuture == [st |-> "new", client |-> IdleClient, exc |-> FALSE, res |-> <<>>, ok |-> FALSE]

\* __init__: the attributes right after construction.
Constructed(cfg, mw, file) ==
    /\ config = cfg
    /\ max_workers = mw
    /\ results = <<>>
    /\ lock = "free"
    /\ pc = "idle"
    /\ tasks = <<>>
    /\ all_results = <<>>
    /\ failed_tasks = <<>>
    /\ cur = 0
    /\ submitted = 0
    /\ completed = {}
    /\ fut = <<>>
    /\ report = NoReport
    /\ csv = file
    /\ save_log = "none"
    /\ summary = NoSummary
    /\ config_file = FileOf(cfg)

(* ------------- SpecRetry: one call of _make_request_with_retry -------- *)
NoOutcome == [kind |-> "none", status |-> 0, body |-> NoBody]

GetEvent(o) == [ev |-> "get", outcome |-> o, secs |-> 0, body |-> NoBody]

SleepEvent(w) == [ev |-> "sleep", outcome |-> NoOutcome, secs |-> w, body |-> NoBody]

\* How the call ended: "return" with the value (NoBody is None), or "raise".
EndEvents(c) ==
    IF c.st = "returned" THEN <<[ev |-> "return", outcome |-> NoOutcome, secs |-> 0, body |-> c.ret]>>
    ELSE IF c.st = "raised" THEN <<[ev |-> "raise", outcome |-> NoOutcome, secs |-> 0, body |-> NoBody]>>
    ELSE <<>>

RetryConfig ==
    [api_keys |-> <<>>, devices |-> <<>>, params |-> {}, has_dates |-> TRUE]

InitRetry ==
    /\ Constructed(RetryConfig, 1, NoFile)
    /\ client = ClientCall
    /\ mock = <<>>
    /\ NoAnalyzer

\* requests.get answers (or raises) and the loop body runs up to its
\* return, raise, time.sleep call or continue.
RetryRequest ==
    /\ client.st = "request"
    /\ \E o \in Outcomes, je \in JsonErrors :
         /\ (o.body.json # "invalid") => je = "RequestException"
         /\ client' = ClientRequest(client, o, je)
         /\ mock' = Append(mock, GetEvent(o)) \o EndEvents(client')
    /\ UNCHANGED <<engine_vars, analysis_vars>>

\* time.sleep(wait_time) returns and the loop continues.
RetrySleep ==
    /\ client.st = "sleep"
    /\ client' = ClientSleep(client)
    /\ mock' = Append(mock, SleepEvent(client.wait)) \o EndEvents(client')
    /\ UNCHANGED <<engine_vars, analysis_vars>>

NextRetry == RetryRequest \/ RetrySleep

SpecRetry == InitRetry /\ [][NextRetry]_vars

(* ----------------- Spec: the extractor object as a whole -------------- *)
\* Mutant: every returned list counts as data.
TruthyAlways(xs) == TRUE

\* "if results:" / "if not self.results": a list is true when non-empty.
Truthy(xs) == xs # <<>>

\* Mutant: the shared list replaced by the task's list.
ListOverwrite(acc, xs) == xs

\* all_results.extend(results)
ListExtend(acc, xs) == acc \o xs

NumTasks(cfg) == Len(BuildTasks(cfg.api_keys, cfg.devices, cfg.params))

Init ==
    /\ \E cfg \in Configs, mw \in 1..MaxWorkers, file \in {NoFile, StaleFile} :
         /\ NumTasks(cfg) <= MaxTasks
         /\ Constructed(cfg, mw, file)
    /\ client = IdleClient
    /\ mock = <<>>
    /\ NoAnalyzer

TaskIds == 1..Len(tasks)

Running == {t \in TaskIds : fut[t].st = "running"}

Finished(t, r) == [st |-> "finished", client |-> IdleClient, exc |-> r.exc, res |-> r.res, ok |-> r.ok]

\* _extract_device_data up to its call of the client: building params reads
\* config['start_date'] / config['end_date'] and raises KeyError without.
EnterTask(t) ==
    IF config.has_dates
    THEN [fut[t] EXCEPT !.st = "running", !.client = ClientCall]
    ELSE Finished(t, [exc |-> TRUE, res |-> <<>>, ok |-> FALSE])

\* The task's step from the client's new position c: when the client's call
\* has ended, the rest of _extract_device_data runs and the task ends.
TaskAfter(t, c) ==
    IF ClientEnded(c)
    THEN Finished(t, ExtractResult(tasks[t], c))
    ELSE [fut[t] EXCEPT !.client = c]

\* extract_data, lines 282-313: build the task list and the two locals.
ExtractData ==
    /\ pc = "idle"
    /\ tasks' = BuildTasks(config.api_keys, config.devices, config.params)
    /\ all_results' = <<>>
    /\ failed_tasks' = <<>>
    /\ fut' = [t \in 1..Len(tasks') |-> NewFuture]
    /\ cur' = 1
    /\ submitted' = 0
    /\ completed' = {}
    /\ pc' = IF max_workers = 1 THEN "seq"
             ELSE IF Len(tasks') = 0 THEN "collect" ELSE "submit"
    /\ UNCHANGED <<config, max_workers, results, lock, report, csv, save_log,
                   summary, client, mock, config_file, analysis_vars>>

\* Sequential path: the loop calls _extract_device_data(task).
SeqCall ==
    /\ pc = "seq"
    /\ cur \in TaskIds
    /\ fut[cur].st = "new"
    /\ fut' = [fut EXCEPT ![cur] = EnterTask(cur)]
    /\ UNCHANGED <<config, max_workers, results, lock, pc, tasks, all_results,
                   failed_tasks, cur, submitted, completed, report, csv, save_log,
                   summary, client, mock, config_file, analysis_vars>>

\* A running task's requests.get answers and the client's loop body runs.
TaskRequest(t) ==
    /\ fut[t].st = "running"
    /\ fut[t].client.st = "request"
    /\ \E o \in Outcomes, je \in JsonErrors :
         /\ (o.body.json # "invalid") => je = "RequestException"
         /\ fut' = [fut EXCEPT ![t] = TaskAfter(t, ClientRequest(fut[t].client, o, je))]
    /\ UNCHANGED <<config, max_workers, results, lock, pc, tasks, all_results,
                   failed_tasks, cur, submitted, completed, report, csv, save_log,
                   summary, client, mock, config_file, analysis_vars>>

\* A running task's time.sleep returns.
TaskSleep(t) ==
    /\ fut[t].st = "running"
    /\ fut[t].client.st = "sleep"
    /\ fut' = [fut EXCEPT ![t] = TaskAfter(t, ClientSleep(fut[t].client))]
    /\ UNCHANGED <<config, max_workers, results, lock, pc, tasks, all_results,
                   failed_tasks, cur, submitted, completed, report, csv, save_log,
                   summary, client, mock, config_file, analysis_vars>>

\* Sequential path, lines 321-325: the call is over.  An exception is not
\* caught here and leaves extract_data (the locals are kept as they were).
SeqReturn ==
    /\ pc = "seq"
    /\ cur \in TaskIds
    /\ fut[cur].st = "finished"
    /\ IF fut[cur].exc
       THEN /\ pc' = "raised"
            /\ UNCHANGED <<all_results, failed_tasks, cur>>
       ELSE /\ pc' = pc
            /\ cur' = cur + 1
            /\ IF Truthy(fut[cur].res)
               THEN /\ all_results' = ListExtend(all_results, fut[cur].res)
                    /\ UNCHANGED failed_tasks
               ELSE /\ failed_tasks' = Append(failed_tasks, tasks[cur])
                    /\ UNCHANGED all_results
    /\ UNCHANGED <<config, max_workers, results, lock, tasks, submitted, completed,
                   fut, report, csv, save_log, summary, client, mock, config_file, analysis_vars>>

\* Pool path, lines 330-333: executor.submit(task), one task at a time.
Submit ==
    /\ pc = "submit"
    /\ submitted < Len(tasks)
    /\ submitted' = submitted + 1
    /\ fut' = [fut EXCEPT ![submitted + 1].st = "queued"]
    /\ pc' = IF submitted' = Len(tasks) THEN "collect" ELSE "submit"
    /\ UNCHANGED <<config, max_workers, results, lock, tasks, all_results,
                   failed_tasks, cur, completed, report, csv, save_log, summary,
                   client, mock, config_file, analysis_vars>>

\* A pool thread takes the oldest queued task; at most max_workers run.
PoolStart(t) ==
    /\ fut[t].st = "queued"
    /\ \A u \in TaskIds : u < t => fut[u].st # "queued"
    /\ Cardinality(Running) < max_workers
    /\ fut' = [fut EXCEPT ![t] = EnterTask(t)]
    /\ UNCHANGED <<config, max_workers, results, lock, pc, tasks, all_results,
                   failed_tasks, cur, submitted, completed, report, csv, save_log,
                   summary, client, mock, config_file, analysis_vars>>

\* Pool path, lines 337-353: as_completed yields a finished future; an
\* exception or an empty list records the task as failed, a non-empty list
\* takes the lock.
Collect(t) ==
    /\ pc = "collect"
    /\ t \notin completed
    /\ fut[t].st = "finished"
    /\ completed' = completed \cup {t}
    /\ IF ~fut[t].exc /\ Truthy(fut[t].res)
       THEN /\ lock = "free"
            /\ lock' = "main"
            /\ cur' = t
            /\ pc' = "extend"
            /\ UNCHANGED failed_tasks
       ELSE /\ failed_tasks' = Append(failed_tasks, tasks[t])
            /\ UNCHANGED <<lock, cur, pc>>
    /\ UNCHANGED <<config, max_workers, results, tasks, all_results, submitted,
                   fut, report, csv, save_log, summary, client, mock, config_file, analysis_vars>>

\* Lines 347-348: all_results.extend(results) under the lock, then release.
Extend ==
    /\ pc = "extend"
    /\ lock = "main"
    /\ all_results' = ListExtend(all_results, fut[cur].res)
    /\ lock' = "free"
    /\ pc' = "collect"
    /\ UNCHANGED <<config, max_workers, results, tasks, failed_tasks, cur,
                   submitted, completed, fut, report, csv, save_log, summary,
                   client, mock, config_file, analysis_vars>>

LoopOver ==
    IF pc = "seq" THEN cur = Len(tasks) + 1
    ELSE pc = "collect" /\ completed = TaskIds

\* Summary, line 359: (total - failed) / total * 100, as a fraction.
SuccessRate(total, failed) ==
    IF total > 0 THEN [num |-> (total - failed) * 100, den |-> total]
    ELSE [num |-> 0, den |-> 1]

ReportOf(total, failed, records) ==
    [logged |-> TRUE, total_tasks |-> total, successful |-> total - failed,
     failed |-> failed,
     rate_num |-> SuccessRate(total, failed).num,
     rate_den |-> SuccessRate(total, failed).den,
     records |-> records]

\* Mutant: the results of the call appended to the stored collection.
StoreResultsAppend ==
    /\ LoopOver
    /\ results' = ListExtend(results, all_results)
    /\ report' = ReportOf(Len(tasks), Len(failed_tasks), Len(all_results))
    /\ pc' = "done"
    /\ UNCHANGED <<config, max_workers, lock, tasks, all_results, failed_tasks,
                   cur, submitted, completed, fut, csv, save_log, summary, client,
                   mock, config_file, analysis_vars>>

\* Lines 356-372: store the results, log the summary, return all_results.
\* The locals are kept as they were at the return.
StoreResults ==
    /\ LoopOver
    /\ results' = all_results
    /\ report' = ReportOf(Len(tasks), Len(failed_tasks), Len(all_results))
    /\ pc' = "done"
    /\ UNCHANGED <<config, max_workers, lock, tasks, all_results, failed_tasks,
                   cur, submitted, completed, fut, csv, save_log, summary, client,
                   mock, config_file, analysis_vars>>

AtRest == pc \in {"idle", "done", "raised"}

\* What open(path, 'w') and the writer can do: succeed, fail to open, or
\* fail while writing.  A failing write leaves the file with the rows
\* written before it: any proper prefix of self.results, followed or not
\* by a part of the next row.
IoOutcomes ==
    {[io |-> "ok", written |-> Len(results), cut |-> FALSE],
     [io |-> "open_failed", written |-> 0, cut |-> FALSE]}
    \cup {[io |-> "write_failed", written |-> k, cut |-> c] :
             k \in 0..(Len(results) - 1), c \in BOOLEAN}

WriteCsv(o) ==
    CASE o.io = "ok" -> [exists |-> TRUE, rows |-> results, cut |-> FALSE]
      [] o.io = "write_failed" ->
           [exists |-> TRUE, rows |-> SubSeq(results, 1, o.written), cut |-> o.cut]
      [] OTHER -> csv

\* Mutant: the early return of save_to_csv dropped.
NothingToSaveNever == FALSE

\* save_to_csv, line 381: "if not self.results".
NothingToSave == ~Truthy(results)

\* save_to_csv: nothing to save is a warning and a return; an IOError of
\* the open or of a write is logged and raised again ("ioerror").
SaveToCsv ==
    /\ AtRest
    /\ IF NothingToSave
       THEN /\ save_log' = "warned"
            /\ UNCHANGED csv
       ELSE \E o \in IoOutcomes :
              /\ csv' = WriteCsv(o)
              /\ save_log' = IF o.io = "ok" THEN "saved" ELSE "ioerror"
    /\ UNCHANGED <<config, max_workers, results, lock, pc, tasks, all_results,
                   failed_tasks, cur, submitted, completed, fut, report, summary,
                   client, mock, config_file, analysis_vars>>

FieldSet(rs, f) == {rs[i][f] : i \in 1..Len(rs)}

\* get_summary: a message without data; else the counts and, when the config
\* lists devices, device_success_rate = devices with data / configured
\* device entries * 100 (kept as a fraction).
GetSummary ==
    /\ AtRest
    /\ summary' =
         IF ~Truthy(results)
         THEN [called |-> TRUE, has_data |-> FALSE, total_records |-> 0,
               clients |-> {}, devices_count |-> 0, params |-> {},
               rate_num |-> 0, rate_den |-> 1]
         ELSE [called |-> TRUE, has_data |-> TRUE, total_records |-> Len(results),
               clients |-> FieldSet(results, "client_name"),
               devices_count |-> Cardinality(FieldSet(results, "device_id")),
               params |-> FieldSet(results, "param_key"),
               rate_num |-> Cardinality(FieldSet(results, "device_id")) * 100,
               rate_den |-> Len(config.devices)]
    /\ UNCHANGED <<config, max_workers, results, lock, pc, tasks, all_results,
                   failed_tasks, cur, submitted, completed, fut, report, csv,
                   save_log, client, mock, config_file, analysis_vars>>

Next ==
    \/ ExtractData
    \/ SeqCall
    \/ SeqReturn
    \/ Submit
    \/ \E t \in TaskIds : PoolStart(t)
    \/ \E t \in TaskIds : TaskRequest(t)
    \/ \E t \in TaskIds : TaskSleep(t)
    \/ \E t \in TaskIds : Collect(t)
    \/ Extend
    \/ StoreResults
    \/ SaveToCsv
    \/ GetSummary

Spec == Init /\ [][Next]_vars

(* ------------- SpecTasks: the task list of every configuration -------- *)
InitTasks ==
    /\ \E cfg \in Configs, mw \in 1..MaxWorkers :
         Constructed(cfg, mw, NoFile)
    /\ client = IdleClient
    /\ mock = <<>>
    /\ NoAnalyzer

SpecTasks == InitTasks /\ [][ExtractData]_vars

(* --------- SpecConfig: the extractor from its configuration file ------ *)
MaxConfigTasks == 1

\* Before DexcellDataExtractor(config_filename): __init__ has assigned
\* results and max_workers, and self.config is not set yet.
InitConfig ==
    /\ \E f \in ConfigFiles, mw \in 1..MaxWorkers :
         /\ Len(f.api_keys) * Len(f.devices) <= MaxConfigTasks
         /\ config_file = f
         /\ max_workers = mw
    /\ config = Rejected("none").config
    /\ results = <<>>
    /\ lock = "free"
    /\ pc = "new"
    /\ tasks = <<>>
    /\ all_results = <<>>
    /\ failed_tasks = <<>>
    /\ cur = 0
    /\ submitted = 0
    /\ completed = {}
    /\ fut = <<>>
    /\ report = NoReport
    /\ csv = NoFile
    /\ save_log = "none"
    /\ summary = NoSummary
    /\ client = IdleClient
    /\ mock = <<>>
    /\ NoAnalyzer

\* __init__, line 69: self.config = self._load_config(path); an exception
\* leaves the constructor and no object exists.
Construct ==
    /\ pc = "new"
    /\ IF LoadConfig(config_file).ok
       THEN /\ config' = LoadConfig(config_file).config
            /\ pc' = "idle"
       ELSE /\ pc' = "rejected"
            /\ UNCHANGED config
    /\ UNCHANGED <<max_workers, results, lock, tasks, all_results, failed_tasks,
                   cur, submitted, completed, fut, report, csv, save_log, summary,
                   client, mock, config_file, analysis_vars>>

NextConfig == Construct \/ Next

SpecConfig == InitConfig /\ [][NextConfig]_vars

(* ------------------ the analyzers: time, files, loaders --------------- *)
\* Time is counted in minutes.
MinutesPerHour == 60

Hour == MinutesPerHour

Day == 24 * Hour

Week == 7 * Day

\* A timestamp as written in a file: the wall-clock time and the UTC offset
\* that follows it ("Z", "+00:00" and no offset are offset 0).
Stamp(wall, off) == [wall |-> wall, off |-> off]

\* _parse_config_date: isoparse, then replace(tzinfo=None): the wall-clock
\* time is kept and the offset is dropped.
ParseConfigDate(d) == d.wall

\* pd.to_datetime(..., utc=True): the instant in UTC.
ToUtc(ts) == ts.wall - ts.off

\* _load_data: parse as UTC, add pd.Timedelta(hours=1), tz_convert(None).
LoadTimestamp(ts) == ToUtc(ts) + Hour

\* Midnight of some day, the start of the windows below.
WindowStart == 10 * Day

WindowOf(from, len, off) == [start |-> Stamp(from, off), end |-> Stamp(from + len, off)]

\* start_date / end_date of the configurations: 24 hours (written in UTC and
\* with +01:00), 24 hours and a half, seven days, and seven days starting
\* an hour later.
AnalysisWindows ==
    { WindowOf(WindowStart, Day, 0), WindowOf(WindowStart, Day, Hour),
      WindowOf(WindowStart, Day + 30, 0), WindowOf(WindowStart, Week, 0),
      WindowOf(WindowStart + Hour, Week, 0) }

Dev(i) == CHOOSE d \in DeviceEntries : d.device_id = i

AnalysisDeviceLists == { <<Dev(1)>>, <<Dev(1), Dev(2)>> }

AnalyzerFile(ex, json, absent, w, ds) ==
    [exists |-> ex, valid_json |-> json, absent |-> absent, start |-> w.start,
     end |-> w.end, devices |-> ds]

\* _load_config of the analyzers, required_fields.
AnalyzerRequiredFields == {"devices", "start_date", "end_date", "request_type"}

GoodAnalyzerFiles ==
    { AnalyzerFile(TRUE, TRUE, {}, w, ds) : w \in AnalysisWindows, ds \in AnalysisDeviceLists }

BadAnalyzerFiles ==
    { AnalyzerFile(FALSE, TRUE, {}, WindowOf(WindowStart, Week, 0), <<Dev(1)>>),
      AnalyzerFile(TRUE, FALSE, {}, WindowOf(WindowStart, Week, 0), <<Dev(1)>>) }
    \cup { AnalyzerFile(TRUE, TRUE, {f}, WindowOf(WindowStart, Week, 0), <<Dev(1)>>) :
             f \in AnalyzerRequiredFields }

AnalyzerFiles == GoodAnalyzerFiles \cup BadAnalyzerFiles

\* _load_config of the analyzers: the exception it raises, "none" when the
\* configuration is returned.
AnalyzerLoadConfig(f) ==
    IF ~f.exists THEN "FileNotFoundError"
    ELSE IF ~f.valid_json THEN "ValueError"
    ELSE IF f.absent \cap AnalyzerRequiredFields # {} THEN "ValueError"
    ELSE "none"

\* A row of the extracted-data CSV.
Row(name, id, param, ts, v) ==
    [client_name |-> "ClientA", device_id |-> id, device_name |-> name,
     param_key |-> param, timestamp |-> ts, value |-> v]

\* Timestamps of the rows, in UTC: 23:00 before the window start, 06:00,
\* the start plus 24 hours and plus seven days.
RowStamps ==
    { Stamp(WindowStart - Hour, 0), Stamp(WindowStart + 6 * Hour, 0),
      Stamp(WindowStart + Day, 0), Stamp(WindowStart + Week, 0) }

\* Rows of device 1 as configured, of device 1 under another name, of
\* device 2, and a negative reading.
CsvRows ==
    { Row("dev1", 1, "EACTIVE", ts, v) : ts \in RowStamps, v \in {0, 5} }
    \cup { Row("dev1b", 1, "EACTIVE", Stamp(WindowStart + 6 * Hour, 0), 5) }
    \cup { Row("dev2", 2, "TEMP", ts, 5) :
             ts \in {Stamp(WindowStart + 6 * Hour, 0), Stamp(WindowStart + Day, 0)} }
    \cup { Row("dev1", 1, "EACTIVE", Stamp(WindowStart + Day - Hour, 0), -5) }

\* One reading of device 1 at every hour of the window w, first and last
\* hour included, the timestamps written with offset off.
HourlySeries(w, off) ==
    [k \in 1..((ToUtc(w.end) - ToUtc(w.start)) \div Hour + 1) |->
        Row("dev1", 1, "EACTIVE", Stamp(ToUtc(w.start) + (k - 1) * Hour + off, off), 5)]

CsvFile(ex, cols, rows) == [exists |-> ex, has_columns |-> cols, rows |-> rows]

MaxRows == 2

\* The CSV in outputs/: missing, lacking a required column, a few rows in
\* any order, or a full hourly series of a 24-hour window (written in UTC
\* or with +01:00).
CsvFiles ==
    { CsvFile(FALSE, TRUE, <<>>), CsvFile(TRUE, FALSE, <<>>) }
    \cup { CsvFile(TRUE, TRUE, rows) : rows \in SeqsUpTo(CsvRows, MaxRows) \ {<<>>} }
    \cup { CsvFile(TRUE, TRUE, HourlySeries(WindowOf(WindowStart, Day, woff), off)) :
             woff \in {0, Hour}, off \in {0, Hour} }

\* _load_data: the exception it raises, "none" when the frame is returned.
LoadDataError(f) ==
    IF ~f.exists THEN "FileNotFoundError"
    ELSE IF ~f.has_columns THEN "ValueError"
    ELSE "none"

\* _load_data: the frame, the timestamp column converted and shifted.
LoadData(f) ==
    [i \in 1..Len(f.rows) |->
        [f.rows[i] EXCEPT !.timestamp = LoadTimestamp(f.rows[i].timestamp)]]

(* --------------------- the analyzers: frames and groups --------------- *)
\* The order of the strings in the data (Python compares them by character).
ParamRank(p) == IF p = "EACTIVE" THEN 1 ELSE 2

NameRank(n) == IF n = "dev1" THEN 1 ELSE IF n = "dev1b" THEN 2 ELSE 3

\* Lexicographic "less than" on tuples of numbers of equal length.
RECURSIVE LexLess(_, _)
LexLess(a, b) ==
    IF a = <<>> THEN FALSE
    ELSE IF Head(a) # Head(b) THEN Head(a) < Head(b)
    ELSE LexLess(Tail(a), Tail(b))

\* sort_values(['device_id', 'param_key', 'timestamp']): the key of a row.
SortKey(r) == <<r.device_id, ParamRank(r.param_key), r.timestamp>>

RECURSIVE InsertSorted(_, _)
InsertSorted(r, rows) ==
    IF rows = <<>> THEN <<r>>
    ELSE IF LexLess(SortKey(r), SortKey(Head(rows))) THEN <<r>> \o rows
    ELSE <<Head(rows)>> \o InsertSorted(r, Tail(rows))

\* A stable sort: rows with equal keys keep their order.
RECURSIVE SortRows(_)
SortRows(rows) ==
    IF rows = <<>> THEN <<>>
    ELSE LET n == Len(rows)
         IN  InsertSorted(rows[n], SortRows(SubSeq(rows, 1, n - 1)))

\* Mutant: the upper bound of the window exclusive.
InWindowOpenEnd(t, w) == t >= w.start /\ t < w.end

\* timestamp_filter: start <= timestamp <= end.
InWindow(t, w) == t >= w.start /\ t <= w.end

FilterRows(rows, w) == SelectSeq(rows, LAMBDA r : InWindow(r.timestamp, w))

\* groupby(['device_id', 'device_name', 'param_key']): the key of a row.
GroupKey(r) == [device_id |-> r.device_id, device_name |-> r.device_name,
                param_key |-> r.param_key]

KeyTuple(k) == <<k.device_id, NameRank(k.device_name), ParamRank(k.param_key)>>

GroupKeys(rows) == {GroupKey(rows[i]) : i \in 1..Len(rows)}

\* The keys of a set of groups in the order groupby iterates them (sorted).
RECURSIVE KeysInOrder(_)
KeysInOrder(ks) ==
    IF ks = {} THEN <<>>
    ELSE LET k == CHOOSE x \in ks : \A y \in ks \ {x} : LexLess(KeyTuple(x), KeyTuple(y))
         IN  <<k>> \o KeysInOrder(ks \ {k})

GroupRows(rows, k) == SelectSeq(rows, LAMBDA r : GroupKey(r) = k)

\* device_config = {(d['device_id'], d['param']): d for d in config['devices']}
\* and device_config.get((device_id, param_key)).
Configured(devices, id, param) ==
    \E i \in 1..Len(devices) : devices[i].device_id = id /\ devices[i].param = param

(* ----------------------- double-precision arithmetic ------------------ *)
\* The code computes its ratios in IEEE doubles from integer-valued
\* operands.  A double is kept as the exact rational num / den (den > 0) it
\* stands for and err, the sign of (the double - num / den): the rounding
\* error decides a comparison or a round(x, 2) only where the exact value
\* lies on the threshold or half-way between two hundredths.
Abs(x) == IF x < 0 THEN -x ELSE x

Sgn(x) == IF x < 0 THEN -1 ELSE IF x > 0 THEN 1 ELSE 0

\* x * 2^n modulo m (0 <= x < m < 2^23), eight doublings at a time.
RECURSIVE DoubleMod(_, _, _)
DoubleMod(x, n, m) ==
    IF n < 8 THEN (x * Pow(2, n)) % m ELSE DoubleMod((x * 256) % m, n - 8, m)

\* The binary exponent of a / b (a, b > 0): e with 2^e <= a / b < 2^(e+1).
RECURSIVE Exponent(_, _)
Exponent(a, b) ==
    IF a < b THEN Exponent(2 * a, b) - 1
    ELSE IF a >= 2 * b THEN Exponent(a, 2 * b) + 1
    ELSE 0

\* a / b (a, b > 0) rounded to a double N * 2^-s with a 53-bit N, s = 52 - e:
\* N modulo 256 and d = N * b - a * 2^s, the error in units of 2^-s / b.
\* Round to nearest, ties to even.
Quotient(a, b) ==
    LET Rounded(e, fl, rem, up) ==
            [e |-> e,
             low |-> (fl + (IF up THEN 1 ELSE 0)) % 256,
             d |-> IF up THEN b - rem ELSE -rem]
        Split(e, fl, rem) ==
            Rounded(e, fl, rem, 2 * rem > b \/ (2 * rem = b /\ fl % 2 = 1))
        Bits(e, x) == Split(e, x \div b, x % b)
        At(e) == Bits(e, DoubleMod(a, 52 - e, 256 * b))
    IN  At(Exponent(a, b))

\* a and b scaled by powers of two to A / B = a / b / 2^e, 1 <= A / B < 2.
Scaled(a, b, e) == IF e >= 0 THEN <<a, b * Pow(2, e)>> ELSE <<a * Pow(2, -e), b>>

\* The double (a / b) * 100 (a, b > 0): 100 * N has 59 or 60 bits, of which
\* the lowest 6 or 7 are rounded away (unit = 2^6 or 2^7).  D is the error
\* of the product against 100 * a / b in units of 2^-s / b.
Product100(a, b) ==
    LET Result(q, ab, unit, lowP, up) ==
            [e |-> q.e, ab |-> ab,
             D |-> 100 * q.d + (IF up THEN unit - lowP ELSE -lowP) * b]
        Nearest(q, ab, unit, lowP, odd) ==
            Result(q, ab, unit, lowP, 2 * lowP > unit \/ (2 * lowP = unit /\ odd))
        Low(q, ab, unit) ==
            Nearest(q, ab, unit, (100 * (q.low % unit)) % unit,
                  ((100 * (q.low % (2 * unit))) \div unit) % 2 = 1)
        Norm(q, ab) == Low(q, ab, IF 100 * ab[1] < 128 * ab[2] THEN 64 ELSE 128)
        Of(q) == Norm(q, Scaled(a, b, q.e))
    IN  Of(Quotient(a, b))

\* The double a / b, b > 0.
FDiv(a, b) ==
    [num |-> a, den |-> b,
     err |-> IF a = 0 THEN 0 ELSE Sgn(a) * Sgn(Quotient(Abs(a), b).d)]

\* The double (a / b) * 100, b > 0.
FPct(a, b) ==
    [num |-> a * 100, den |-> b,
     err |-> IF a = 0 THEN 0 ELSE Sgn(a) * Sgn(Product100(Abs(a), b).D)]

\* x < t and x > t of a double x and an integer t.
FLess(x, t) == x.num < t * x.den \/ (x.num = t * x.den /\ x.err < 0)

FGreater(x, t) == x.num > t * x.den \/ (x.num = t * x.den /\ x.err > 0)

\* abs(x).
FAbs(x) == [num |-> Abs(x.num), den |-> x.den, err |-> Sgn(x.num) * x.err]

\* round(x, 2) of a Python float x >= 0, in hundredths: the hundredth
\* nearest to the double.  Where the exact value is half-way, the double's
\* error decides, and an exact double goes to the even hundredth.
RoundAbs2(x) ==
    LET q == (x.num * 100) \div x.den
        r == (x.num * 100) % x.den
    IN  IF 2 * r < x.den THEN q
        ELSE IF 2 * r > x.den THEN q + 1
        ELSE IF x.err < 0 THEN q
        ELSE IF x.err > 0 THEN q + 1
        ELSE IF q % 2 = 0 THEN q ELSE q + 1

\* round(x, 2) of a Python float x of either sign.
Round2(x) == Sgn(x.num) * RoundAbs2(FAbs(x))

\* round(x, 2) of a numpy float64 x = (a / b) * 100 (a >= 0, b > 0), in
\* hundredths: rint(x * 100) / 100.  Where the exact value is half-way, the
\* product x * 100 is the half-way double itself when the error of x times
\* 100 is at most half a unit in the last place there (rint then goes to the
\* even hundredth), and lies on the side of the error otherwise.
NumpyRound2Pct(a, b) ==
    LET Rint(x, p) ==
            LET q == (x.num * 100) \div x.den
                halfway == 2 * ((x.num * 100) % x.den) = x.den
                half == IF 10000 * p.ab[1] < 16384 * p.ab[2] THEN 4096 ELSE 8192
                exact == 100 * Abs(p.D) <= b * half
            IN  IF ~halfway THEN RoundAbs2(x)
                ELSE IF exact THEN (IF q % 2 = 0 THEN q ELSE q + 1)
                ELSE IF p.D < 0 THEN q ELSE q + 1
    IN  IF a = 0 THEN 0 ELSE Rint(FPct(a, b), Product100(a, b))

\* int(x) of x = a / b (b > 0): truncation toward zero.
TruncDiv(a, b) == IF a >= 0 THEN a \div b ELSE -((-a) \div b)

(* ---------------------- HourlyDataQualityAnalyzer --------------------- *)
\* Mutant: the end hour not counted.
ExpectedPointsNoEnd(w) == TruncDiv(w.end - w.start, Hour)

\* _calculate_expected_points: int(total_seconds / 3600) + 1.
ExpectedPoints(w) == TruncDiv(w.end - w.start, Hour) + 1

\* completeness < 90, with completeness = actual / expected * 100 when
\* expected > 0 and 0 otherwise.
PoorCompleteness(actual, expected) ==
    IF expected > 0 THEN FLess(FPct(actual, expected), 90) ELSE TRUE

\* zero_percentage > 10, with zero_percentage = zero_count / actual * 100
\* when actual > 0 and 0 otherwise.
HighZeroValues(zero_count, actual) ==
    actual > 0 /\ FGreater(FPct(zero_count, actual), 10)

\* negative_percentage > 0.
NegativeValues(negative_count, actual) ==
    actual > 0 /\ FGreater(FPct(negative_count, actual), 0)

QualityFlags(actual, expected, zero_count, negative_count) ==
    (IF PoorCompleteness(actual, expected) THEN <<"Poor Completeness">> ELSE <<>>)
    \o (IF HighZeroValues(zero_count, actual) THEN <<"High Zero Values">> ELSE <<>>)
    \o (IF NegativeValues(negative_count, actual) THEN <<"Negative Values">> ELSE <<>>)

\* _analyze_device_quality: the result record of one group; percentages in
\* hundredths, rounded to two decimals.  completeness is a Python float
\* (int / int * 100); the zero and negative counts are numpy integers, so
\* their percentages are numpy floats and round as numpy does.
AnalyzeDeviceQuality(rows, k, w) ==
    LET expected == ExpectedPoints(w)
        actual == Len(rows)
        zero_count == Len(SelectSeq(rows, LAMBDA r : r.value = 0))
        negative_count == Len(SelectSeq(rows, LAMBDA r : r.value < 0))
        flags == QualityFlags(actual, expected, zero_count, negative_count)
    IN  [client_name |-> rows[1].client_name,
         device_id |-> k.device_id,
         device_name |-> k.device_name,
         param_key |-> k.param_key,
         analysis_period_start |-> w.start,
         analysis_period_end |-> w.end,
         expected_points |-> expected,
         actual_points |-> actual,
         completeness_percentage |->
             IF expected > 0 THEN Round2(FPct(actual, expected)) ELSE 0,
         zero_count |-> zero_count,
         zero_percentage |-> IF actual > 0 THEN NumpyRound2Pct(zero_count, actual) ELSE 0,
         negative_count |-> negative_count,
         negative_percentage |->
             IF actual > 0 THEN NumpyRound2Pct(negative_count, actual) ELSE 0,
         quality_flags |-> flags,
         is_flagged |-> Len(flags) > 0]

\* analyze_quality's loop over the groups: a group whose (device_id,
\* param_key) is not configured is skipped with a warning.
RECURSIVE QualityForKeys(_, _, _, _)
QualityForKeys(ks, rows, devices, w) ==
    IF ks = <<>> THEN <<>>
    ELSE (IF Configured(devices, Head(ks).device_id, Head(ks).param_key)
          THEN <<AnalyzeDeviceQuality(GroupRows(rows, Head(ks)), Head(ks), w)>>
          ELSE <<>>)
         \o QualityForKeys(Tail(ks), rows, devices, w)

\* analyze_quality: self.results.
AnalyzeQuality(rows, devices, w) ==
    QualityForKeys(KeysInOrder(GroupKeys(rows)), rows, devices, w)

(* --------------------------- DataTrendAnalyzer ------------------------ *)
RECURSIVE SumValues(_)
SumValues(rows) == IF rows = <<>> THEN 0 ELSE Head(rows).value + SumValues(Tail(rows))

RECURSIVE MinOf(_)
MinOf(xs) == IF Len(xs) = 1 THEN xs[1] ELSE Min(Head(xs), MinOf(Tail(xs)))

RECURSIVE MaxOf(_)
MaxOf(xs) == IF Len(xs) = 1 THEN xs[1] ELSE -Min(-Head(xs), -MaxOf(Tail(xs)))

Column(rows, f) == [i \in 1..Len(rows) |-> rows[i][f]]

\* Mutant: a row at the midpoint counted in the second period.
InFirstPeriodStrict(t, lo, hi) == 2 * t < lo + hi

\* _split_data_into_weeks: midpoint = min + (max - min) / 2 of the group's
\* own timestamps; timestamp <= midpoint is the first period.
InFirstPeriod(t, lo, hi) == 2 * t <= lo + hi

FirstPeriod(rows) ==
    LET ts == Column(rows, "timestamp")
    IN  SelectSeq(rows, LAMBDA r : InFirstPeriod(r.timestamp, MinOf(ts), MaxOf(ts)))

SecondPeriod(rows) ==
    LET ts == Column(rows, "timestamp")
    IN  SelectSeq(rows, LAMBDA r : ~InFirstPeriod(r.timestamp, MinOf(ts), MaxOf(ts)))

\* _calculate_period_totals; average in hundredths.
PeriodTotals(rows) ==
    IF rows = <<>>
    THEN [total |-> 0, average |-> 0, count |-> 0, min_value |-> 0, max_value |-> 0]
    ELSE [total |-> SumValues(rows),
          average |-> Round2(FDiv(SumValues(rows), Len(rows))),
          count |-> Len(rows),
          min_value |-> MinOf(Column(rows, "value")),
          max_value |-> MaxOf(Column(rows, "value"))]

\* percentage_change before it is reported: float('inf') for a zero
\* baseline with a non-zero second total, else the double
\* ((p2 - p1) / p1) * 100, kept as its exact value num / den (den > 0) and
\* the sign err of its rounding error.
PercentageChange(p1, p2) ==
    IF p1 = 0
    THEN [inf |-> p2 # 0, num |-> 0, den |-> 1, err |-> 0]
    ELSE [inf |-> FALSE] @@ FPct((p2 - p1) * Sgn(p1), Abs(p1))

\* Mutant: the comparison with the threshold inclusive.
TrendDirectionStrict(chg, th) ==
    IF chg.inf THEN "significant_increase"
    ELSE IF FLess(FAbs(chg), th) THEN "stable"
    ELSE IF ~FLess(chg, th) THEN "increasing"
    ELSE "decreasing"

\* Lines 373-380.
TrendDirection(chg, th) ==
    IF chg.inf THEN "significant_increase"
    ELSE IF ~FGreater(FAbs(chg), th) THEN "stable"
    ELSE IF FGreater(chg, th) THEN "increasing"
    ELSE "decreasing"

\* Mutant: the zero-baseline case not flagged.
IsSignificantTrendNoInf(chg, th) == FGreater(FAbs(chg), th)

\* Lines 383-384: is_significant_trend.
IsSignificantTrend(chg, th) == chg.inf \/ FGreater(FAbs(chg), th)

\* Mutant: the infinite change reported as it is.
ReportedChangeRaw(chg) == chg

\* Line 387: 999.99 stands for float('inf'); the double of the literal lies
\* above 999.99.
ReportedChange(chg) ==
    IF chg.inf THEN [inf |-> FALSE, num |-> 99999, den |-> 100, err |-> 1]
    ELSE chg

\* _calculate_trend_variance.
CalculateTrendVariance(p1, p2, th) ==
    LET chg == PercentageChange(p1, p2)
    IN  [percentage_change |-> ReportedChange(chg),
         absolute_difference |-> p2 - p1,
         trend_direction |-> TrendDirection(chg, th),
         is_flagged |-> IsSignificantTrend(chg, th),
         baseline_period |-> p1,
         comparison_period |-> p2]

\* _analyze_device_trend: the result record of one group; percentages and
\* averages in hundredths.
AnalyzeDeviceTrend(rows, k, w, th) ==
    LET s1 == PeriodTotals(FirstPeriod(rows))
        s2 == PeriodTotals(SecondPeriod(rows))
        m == CalculateTrendVariance(s1.total, s2.total, th)
    IN  [client_name |-> rows[1].client_name,
         device_id |-> k.device_id,
         device_name |-> k.device_name,
         param_key |-> k.param_key,
         analysis_period_start |-> w.start,
         analysis_period_end |-> w.end,
         period1_total |-> s1.total, period1_average |-> s1.average,
         period1_count |-> s1.count, period1_min |-> s1.min_value,
         period1_max |-> s1.max_value,
         period2_total |-> s2.total, period2_average |-> s2.average,
         period2_count |-> s2.count, period2_min |-> s2.min_value,
         period2_max |-> s2.max_value,
         percentage_change |-> Round2(m.percentage_change),
         absolute_difference |-> m.absolute_difference,
         trend_direction |-> m.trend_direction,
         is_flagged |-> m.is_flagged,
         threshold_used |-> th,
         total_data_points |-> Len(rows)]

\* analyze_trends' loop over the groups.
RECURSIVE TrendForKeys(_, _, _, _, _)
TrendForKeys(ks, rows, devices, w, th) ==
    IF ks = <<>> THEN <<>>
    ELSE (IF Configured(devices, Head(ks).device_id, Head(ks).param_key)
          THEN <<AnalyzeDeviceTrend(GroupRows(rows, Head(ks)), Head(ks), w, th)>>
          ELSE <<>>)
         \o TrendForKeys(Tail(ks), rows, devices, w, th)

\* analyze_trends: self.results.
AnalyzeTrends(rows, devices, w, th) ==
    TrendForKeys(KeysInOrder(GroupKeys(rows)), rows, devices, w, th)

(* ---------------------- OutOfHoursConsumptionAnalyzer ----------------- *)
\* time(7, 0, 0) and time(19, 0, 0), as minutes of the day.
working_hours_start == 7 * Hour

working_hours_end == 19 * Hour

\* Mutant: 19:00 counted as working hours.
IsWorkingHoursClosed(t) == t % Day >= working_hours_start /\ t % Day <= working_hours_end

\* _prepare_time_analysis: time_only >= 07:00 and time_only < 19:00.
IsWorkingHours(t) == t % Day >= working_hours_start /\ t % Day < working_hours_end

\* _prepare_time_analysis: the date and is_working_hours columns.
WithTimeColumns(rows) ==
    [i \in 1..Len(rows) |->
        [client_name |-> rows[i].client_name, device_id |-> rows[i].device_id,
         device_name |-> rows[i].device_name, param_key |-> rows[i].param_key,
         timestamp |-> rows[i].timestamp, value |-> rows[i].value,
         date |-> rows[i].timestamp \div Day,
         is_working_hours |-> IsWorkingHours(rows[i].timestamp)]]

\* groupby(['date', 'device_id', 'device_name', 'param_key']).
DayKey(r) == [date |-> r.date, device_id |-> r.device_id,
              device_name |-> r.device_name, param_key |-> r.param_key]

DayKeyTuple(k) ==
    <<k.date, k.device_id, NameRank(k.device_name), ParamRank(k.param_key)>>

DayKeys(rows) == {DayKey(rows[i]) : i \in 1..Len(rows)}

RECURSIVE DayKeysInOrder(_)
DayKeysInOrder(ks) ==
    IF ks = {} THEN <<>>
    ELSE LET k == CHOOSE x \in ks : \A y \in ks \ {x} : LexLess(DayKeyTuple(x), DayKeyTuple(y))
         IN  <<k>> \o DayKeysInOrder(ks \ {k})

DayRows(rows, k) == SelectSeq(rows, LAMBDA r : DayKey(r) = k)

\* _calculate_daily_consumption; the percentage as the fraction num / den.
CalculateDailyConsumption(rows) ==
    LET working == SelectSeq(rows, LAMBDA r : r.is_working_hours)
        outside == SelectSeq(rows, LAMBDA r : ~r.is_working_hours)
        total == SumValues(working) + SumValues(outside)
    IN  [working_hours_consumption |-> SumValues(working),
         out_of_hours_consumption |-> SumValues(outside),
         total_consumption |-> total,
         out_of_hours_percentage |->
             IF total > 0 THEN FPct(SumValues(outside), total)
             ELSE [num |-> 0, den |-> 1, err |-> 0],
         data_points_working |-> Len(working),
         data_points_out_of_hours |-> Len(outside)]

\* _identify_consumption_issues: the list of issues.
IdentifyConsumptionIssues(stats, th) ==
    (IF stats.out_of_hours_consumption > stats.working_hours_consumption
     THEN <<"Out-of-hours consumption exceeds working hours consumption">> ELSE <<>>)
    \o (IF FGreater(stats.out_of_hours_percentage, th)
        THEN <<"Out-of-hours consumption exceeds threshold">> ELSE <<>>)

\* _analyze_device_consumption: <<>> for None, else the one record.
AnalyzeDeviceConsumption(rows, k, w, th) ==
    LET stats == CalculateDailyConsumption(rows)
        issues == IdentifyConsumptionIssues(stats, th)
    IN  IF stats.total_consumption = 0 THEN <<>>
        ELSE IF Len(issues) = 0 THEN <<>>
        ELSE <<[client_name |-> rows[1].client_name,
                analysis_date |-> k.date,
                device_id |-> k.device_id,
                device_name |-> k.device_name,
                param_key |-> k.param_key,
                analysis_period_start |-> w.start,
                analysis_period_end |-> w.end,
                total_consumption |-> stats.total_consumption,
                working_hours_consumption |-> stats.working_hours_consumption,
                out_of_hours_consumption |-> stats.out_of_hours_consumption,
                out_of_hours_percentage |->
                    Round2(stats.out_of_hours_percentage),
                data_points_working |-> stats.data_points_working,
                data_points_out_of_hours |-> stats.data_points_out_of_hours,
                issues_identified |-> issues,
                is_flagged |-> TRUE,
                threshold_used |-> th]>>

\* analyze_consumption's loop over the device-days.
RECURSIVE ConsumptionForKeys(_, _, _, _, _)
ConsumptionForKeys(ks, rows, devices, w, th) ==
    IF ks = <<>> THEN <<>>
    ELSE (IF Configured(devices, Head(ks).device_id, Head(ks).param_key)
          THEN AnalyzeDeviceConsumption(DayRows(rows, Head(ks)), Head(ks), w, th)
          ELSE <<>>)
         \o ConsumptionForKeys(Tail(ks), rows, devices, w, th)

\* analyze_consumption: self.results.
AnalyzeConsumption(rows, devices, w, th) ==
    ConsumptionForKeys(DayKeysInOrder(DayKeys(rows)), rows, devices, w, th)

(* --------------- SpecAnalysis: one analyzer on its two files ---------- *)
Analyzers == {"quality", "trend", "out_of_hours"}

\* Threshold arguments: below 0, the workflow's 30, 100, above 100.
Thresholds == {-1, 30, 100, 101}

\* The constructors' range check of the threshold (the quality analyzer
\* takes none).
ThresholdError(an, th) ==
    CASE an = "trend" -> th < 0 \/ th > 100
      [] an = "out_of_hours" -> ~(0 <= th /\ th <= 100)
      [] OTHER -> FALSE

\* _validate_data_period: period_duration.days < 7.
PeriodError(w) == (w.end - w.start) \div Day < 7

ParsedWindow(f) == [start |-> ParseConfigDate(f.start), end |-> ParseConfigDate(f.end)]

\* _prepare_hourly_analysis / _prepare_trend_analysis / _prepare_time_analysis.
PrepareData(an, rows, w) ==
    IF an = "out_of_hours"
    THEN SortRows(WithTimeColumns(FilterRows(rows, w)))
    ELSE SortRows(FilterRows(rows, w))

Raised(e, reads) == [error |-> e, reads |-> reads, window |-> NoWindow, data |-> <<>>]

\* __init__ of an analyzer, in the order of its statements.
AnalyzerInit(an, th, cf, csvf) ==
    IF ThresholdError(an, th) THEN Raised("ValueError", {})
    ELSE IF AnalyzerLoadConfig(cf) # "none" THEN Raised(AnalyzerLoadConfig(cf), {"config"})
    ELSE IF LoadDataError(csvf) # "none" THEN Raised(LoadDataError(csvf), {"config", "csv"})
    ELSE IF an = "trend" /\ PeriodError(ParsedWindow(cf)) THEN Raised("ValueError", {"config", "csv"})
    ELSE [error |-> "none", reads |-> {"config", "csv"}, window |-> ParsedWindow(cf),
          data |-> PrepareData(an, LoadData(csvf), ParsedWindow(cf))]

InitAnalysis ==
    /\ Constructed(RetryConfig, 1, NoFile)
    /\ client = IdleClient
    /\ mock = <<>>
    /\ analyzer \in Analyzers
    /\ threshold \in IF analyzer = "quality" THEN {0} ELSE Thresholds
    /\ a_config_file \in AnalyzerFiles
    /\ a_csv_file \in CsvFiles
    /\ apc = "new"
    /\ a_error = Call("none", "none")
    /\ a_reads = {}
    /\ window = NoWindow
    /\ data = <<>>
    /\ a_results = <<>>
    /\ analyzed = FALSE
    /\ reports = NoReports
    /\ call_args = <<>>
    /\ call_result = <<>>

\* The constructor call.
AnalyzerConstruct ==
    /\ apc = "new"
    /\ LET o == AnalyzerInit(analyzer, threshold, a_config_file, a_csv_file)
       IN  /\ apc' = IF o.error = "none" THEN "ready" ELSE "rejected"
           /\ a_error' = Call("__init__", o.error)
           /\ a_reads' = o.reads
           /\ window' = o.window
           /\ data' = o.data
    /\ UNCHANGED <<analyzer, a_config_file, a_csv_file, threshold, a_results,
                   analyzed, reports, call_args, call_result, engine_vars, client,
                   mock>>

\* analyze_quality / analyze_trends / analyze_consumption.
Analyze ==
    /\ apc = "ready"
    /\ a_results' =
         CASE analyzer = "quality" -> AnalyzeQuality(data, a_config_file.devices, window)
           [] analyzer = "trend" ->
                AnalyzeTrends(data, a_config_file.devices, window, threshold)
           [] OTHER -> AnalyzeConsumption(data, a_config_file.devices, window, threshold)
    /\ analyzed' = TRUE
    /\ a_error' = Call("analyze", "none")
    /\ UNCHANGED <<analyzer, a_config_file, a_csv_file, threshold, apc, a_reads,
                   window, data, reports, call_args, call_result, engine_vars,
                   client, mock>>

\* "if not self.results:" of the save methods.
NoResultsToSave(rs) == rs = <<>>

\* What to_csv / open(path, 'w') and the writes of a report can do.
ReportIo == {"ok", "open_failed", "write_failed"}

\* The report file after the attempt: written, left as it was when it could
\* not be opened, truncated when a write failed.
WriteReport(old, content, io) ==
    CASE io = "ok" -> content
      [] io = "write_failed" -> "truncated"
      [] OTHER -> old

\* "except IOError as e: raise IOError(...)" of the save methods.
SaveError(io) == IF io = "ok" THEN "none" ELSE "IOError"

\* save_report: ValueError without results, else the CSV of the records,
\* or IOError when it cannot be written.
SaveReport ==
    /\ apc = "ready"
    /\ IF NoResultsToSave(a_results)
       THEN /\ a_error' = Call("save_report", "ValueError")
            /\ UNCHANGED reports
       ELSE \E io \in ReportIo :
              /\ a_error' = Call("save_report", SaveError(io))
              /\ reports' = [reports EXCEPT !.csv = WriteReport(reports.csv, "records", io)]
    /\ UNCHANGED <<analyzer, a_config_file, a_csv_file, threshold, apc, a_reads,
                   window, data, a_results, analyzed, call_args, call_result,
                   engine_vars, client, mock>>

\* save_text_report: without results the out-of-hours analyzer writes a
\* report saying that no issue was found, the other two raise ValueError;
\* a report that cannot be written is an IOError.
SaveTextReport ==
    /\ apc = "ready"
    /\ IF NoResultsToSave(a_results) /\ analyzer # "out_of_hours"
       THEN /\ a_error' = Call("save_text_report", "ValueError")
            /\ UNCHANGED reports
       ELSE \E io \in ReportIo :
              /\ a_error' = Call("save_text_report", SaveError(io))
              /\ reports' =
                   [reports EXCEPT !.txt =
                       WriteReport(reports.txt,
                                   IF NoResultsToSave(a_results) THEN "no_issues_report"
                                   ELSE "full_report", io)]
    /\ UNCHANGED <<analyzer, a_config_file, a_csv_file, threshold, apc, a_reads,
                   window, data, a_results, analyzed, call_args, call_result,
                   engine_vars, client, mock>>

NextAnalysis == AnalyzerConstruct \/ Analyze \/ SaveReport \/ SaveTextReport

SpecAnalysis == InitAnalysis /\ [][NextAnalysis]_vars

(* ------------- SpecTrend: one call of _calculate_trend_variance ------- *)
\* Period totals, among them the pairs 100/150 and 0/5, and 100/107, whose
\* change the doubles give as 7.000000000000001.
Totals == {-150, -100, -5, 0, 5, 100, 105, 107, 110, 111, 150}

\* Thresholds the constructor accepts.
TrendThresholds == {0, 7, 10, 50, 100}

\* An analyzer object as the constructor leaves it, for a call of one of
\* its helper methods.
HelperObject(an, th) ==
    /\ Constructed(RetryConfig, 1, NoFile)
    /\ client = IdleClient
    /\ mock = <<>>
    /\ analyzer = an
    /\ threshold = th
    /\ a_config_file = AnalyzerFile(TRUE, TRUE, {}, WindowOf(WindowStart, Week, 0), <<Dev(1)>>)
    /\ a_csv_file = CsvFile(TRUE, TRUE, <<>>)
    /\ apc = "ready"
    /\ a_error = Call("__init__", "none")
    /\ a_reads = {"config", "csv"}
    /\ window = ParsedWindow(a_config_file)
    /\ data = <<>>
    /\ a_results = <<>>
    /\ analyzed = FALSE
    /\ reports = NoReports
    /\ call_result = <<>>

InitTrend ==
    /\ \E th \in TrendThresholds : HelperObject("trend", th)
    /\ call_args \in [period1_total : Totals, period2_total : Totals]

CallTrendVariance ==
    /\ analyzer = "trend"
    /\ call_result = <<>>
    /\ call_result' =
         <<CalculateTrendVariance(call_args.period1_total, call_args.period2_total, threshold)>>
    /\ UNCHANGED <<analyzer, a_config_file, a_csv_file, threshold, apc, a_error,
                   a_reads, window, data, a_results, analyzed, reports, call_args,
                   engine_vars, client, mock>>

SpecTrend == InitTrend /\ [][CallTrendVariance]_vars

(* ----------- SpecHours: one call of _analyze_device_consumption ------- *)
\* Sums of a day's working hours and of its other hours, among them the
\* pairs 80/20 and 40/60, and 93/7, whose out-of-hours percentage the
\* doubles give as 7.000000000000001.
Amounts == {-10, -5, 0, 7, 20, 40, 60, 80, 93}

HoursThresholds == {0, 7, 30, 100}

\* One day of one device: a reading at 12:00 and a reading at 22:00.
DayOf(wh, ooh) ==
    WithTimeColumns(<<Row("dev1", 1, "EACTIVE", WindowStart + 12 * Hour, wh),
                      Row("dev1", 1, "EACTIVE", WindowStart + 22 * Hour, ooh)>>)

InitHours ==
    /\ \E th \in HoursThresholds : HelperObject("out_of_hours", th)
    /\ call_args \in {DayOf(wh, ooh) : wh \in Amounts, ooh \in Amounts}

CallAnalyzeDeviceConsumption ==
    /\ analyzer = "out_of_hours"
    /\ call_result = <<>>
    /\ call_result' =
         <<AnalyzeDeviceConsumption(call_args, DayKey(call_args[1]), window, threshold)>>
    /\ UNCHANGED <<analyzer, a_config_file, a_csv_file, threshold, apc, a_error,
                   a_reads, window, data, a_results, analyzed, reports, call_args,
                   engine_vars, client, mock>>

SpecHours == InitHours /\ [][CallAnalyzeDeviceConsumption]_vars

(* --------------- SpecWorker: one call of _extract_device_data --------- *)
\* Tasks of the two API keys (with and without a client_name).
WorkerTasks ==
    {BuildTasks(<<k>>, <<d>>, {d.param})[1] : k \in KeyEntries, d \in DeviceEntries}

\* What _make_request_with_retry hands back: None or a payload that passed
\* its 'values' check.
ClientReturns == {NoBody} \cup WellFormedBodies

InitWorker ==
    /\ Constructed(RetryConfig, 1, NoFile)
    /\ client = IdleClient
    /\ mock = <<>>
    /\ analyzer = "none"
    /\ a_config_file = <<>>
    /\ a_csv_file = <<>>
    /\ threshold = 0
    /\ apc = "new"
    /\ a_error = Call("none", "none")
    /\ a_reads = {}
    /\ window = NoWindow
    /\ data = <<>>
    /\ a_results = <<>>
    /\ analyzed = FALSE
    /\ reports = NoReports
    /\ call_args \in [task : WorkerTasks, response_data : ClientReturns]
    /\ call_result = <<>>

CallExtractDeviceData ==
    /\ analyzer = "none"
    /\ call_args # <<>>
    /\ call_result = <<>>
    /\ call_result' =
         <<ExtractResult(call_args.task,
                         [st |-> "returned", attempt |-> 0, wait |-> 0,
                          ret |-> call_args.response_data])>>
    /\ UNCHANGED <<analyzer, a_config_file, a_csv_file, threshold, apc, a_error,
                   a_reads, window, data, a_results, analyzed, reports, call_args,
                   engine_vars, client, mock>>

SpecWorker == InitWorker /\ [][CallExtractDeviceData]_vars

(* ----------------------- reading the mock's record -------------------- *)
GetIndexes == {i \in 1..Len(mock) : mock[i].ev = "get"}

NumRequests == Cardinality(GetIndexes)

NumSleeps == Cardinality({i \in 1..Len(mock) : mock[i].ev = "sleep"})

Retryable(o) == o.kind \in {"timeout", "error"} \/ (o.kind = "response" /\ o.status \in RetryStatuses)

WellFormed200(o) == o.kind = "response" /\ o.status = 200 /\ o.body \in WellFormedBodies

\* 401, a 200 whose payload has no 'values' key (a JSON object without it,
\* a JSON scalar, or a body that is not JSON), or a status outside
\* 200/429/500/502/503/504.
TerminalFailure(o) ==
    /\ o.kind = "response"
    /\ \/ o.status = 401
       \/ o.status = 200 /\ ~o.body.has_values
       \/ o.status \notin {200, 429, 500, 502, 503, 504}

ReturnedNone(i) ==
    /\ Len(mock) = i
    /\ mock[i].ev = "return"
    /\ mock[i].body = NoBody
    /\ client.st = "returned"

Returned(i, body) ==
    /\ Len(mock) = i
    /\ mock[i].ev = "return"
    /\ mock[i].body = body
    /\ client.st = "returned"

\* C1 (as claimed): an attempt answered by 401, by a 200 whose payload lacks
\* the 'values' key or by a status outside 200/429/5xx ends the call with
\* failure at once: the event after that request is the return of None and
\* it is the last event (no sleep, no further request); a call whose
\* responses are all 401 has issued exactly one request.
C1_TerminalFailureEndsCall ==
    /\ \A i \in GetIndexes : TerminalFailure(mock[i].outcome) => ReturnedNone(i + 1)
    /\ (GetIndexes # {} /\ \A i \in GetIndexes : mock[i].outcome.status = 401)
          => (NumRequests = 1 /\ NumSleeps = 0 /\ ReturnedNone(2))

\* The cases of C1 in which the call does end at once: 401, a status
\* outside 200/429/5xx, and a 200 whose payload is a JSON object without
\* 'values'.
C1_RefusalEndsCall ==
    \A i \in GetIndexes :
        (/\ TerminalFailure(mock[i].outcome)
         /\ mock[i].outcome.status = 200 => mock[i].outcome.body = NoValuesBody)
            => ReturnedNone(i + 1)

\* C2: a well-formed 200 that follows only retryable outcomes (at most two)
\* is returned as the call's value; while fewer than three attempts have all
\* been retryable the call is still going on; and when the first answer is
\* 429 and the second a well-formed 200, the only event between the two
\* requests is a sleep of at least base_wait.
C2_RetryThenPayload ==
    /\ \A i \in GetIndexes :
          (WellFormed200(mock[i].outcome)
             /\ \A j \in GetIndexes : j < i => Retryable(mock[j].outcome))
          => Returned(i + 1, mock[i].outcome.body)
    /\ (NumRequests < max_retries /\ \A j \in GetIndexes : Retryable(mock[j].outcome))
          => client.st \in {"request", "sleep"}
    /\ (Len(mock) >= 3 /\ mock[1].ev = "get" /\ mock[1].outcome.status = 429
          /\ mock[3].ev = "get" /\ WellFormed200(mock[3].outcome))
          => (mock[2].ev = "sleep" /\ mock[2].secs >= base_wait
                /\ Returned(4, mock[3].outcome.body))
    /\ \A i \in GetIndexes : i > 1 => mock[i - 1].ev = "sleep"

\* C2 witness: 429, then a 200 carrying two values, returned.
C2_Witness ==
    /\ Len(mock) = 4
    /\ mock[1].ev = "get" /\ mock[1].outcome.status = 429
    /\ mock[2].ev = "sleep"
    /\ mock[3].ev = "get" /\ WellFormed200(mock[3].outcome)
    /\ Len(mock[3].outcome.body.values) = 2
    /\ Returned(4, mock[3].outcome.body)

\* C3 (as claimed): whatever the outcomes, the call issues at most
\* max_retries requests, never raises, and three retryable outcomes in a row
\* end in the failure value.
C3_NeverRaises ==
    /\ NumRequests <= max_retries
    /\ client.st # "raised"
    /\ (NumRequests = max_retries /\ \A j \in GetIndexes : Retryable(mock[j].outcome))
          => (client.st = "sleep" \/ ReturnedNone(Len(mock)))

(* -------------------- reading the engine's state ---------------------- *)
Succeeded(t) == fut[t].st = "finished" /\ ~fut[t].exc /\ fut[t].res # <<>>

SucceededTasks == {t \in TaskIds : Succeeded(t)}

Ended == pc \in {"done", "raised"}

\* The readings of the tasks that returned some, in task order: what a
\* sequential run over the same per-task outcomes collects.
InOrderResults == Concat([t \in TaskIds |-> IF Succeeded(t) THEN fut[t].res ELSE <<>>])

InOrderFailed == SelectSeq([t \in TaskIds |-> t], LAMBDA t : ~Succeeded(t))

FailedBag == SeqToBag([i \in 1..Len(InOrderFailed) |-> tasks[InOrderFailed[i]]])

Perms(S) == {p \in [1..Cardinality(S) -> S] : \A i, j \in 1..Cardinality(S) : p[i] = p[j] => i = j}

ConcatOf(p) == Concat([i \in 1..Len(p) |-> fut[p[i]].res])

\* C4 (as claimed): a failing task never aborts the run; when extract_data
\* is over it has returned, every task was executed and every reading a task
\* returned is in the returned collection.  Stated for configurations that
\* carry both dates, so that a task fails only on what the API answers.
C4_FailureNeverAborts ==
    (Ended /\ config.has_dates) =>
      /\ pc = "done"
      /\ \A t \in TaskIds : fut[t].st = "finished"
      /\ SeqToBag(InOrderResults) = SeqToBag(results)

\* C5: after extract_data has built its list, there is one task per (API
\* key, device entry) pair whose param is whitelisted and none for any other
\* device; the list is API-key-major, then in device order, so its length is
\* |api_keys| times the number of whitelisted device entries, duplicates
\* counted.
AllowedDevices == {j \in 1..Len(config.devices) : config.devices[j].param \in config.params}

Rank(j) == Cardinality({k \in AllowedDevices : k <= j})

TaskOf(i, j) ==
    [token |-> config.api_keys[i].token,
     client_name |-> IF config.api_keys[i].has_client_name
                     THEN config.api_keys[i].client_name ELSE "Unknown Client",
     device_id |-> config.devices[j].device_id,
     device_name |-> config.devices[j].name,
     param_key |-> config.devices[j].param]

C5_TaskList ==
    pc # "idle" =>
      /\ Len(tasks) = Len(config.api_keys) * Cardinality(AllowedDevices)
      /\ \A i \in 1..Len(config.api_keys) : \A j \in AllowedDevices :
            tasks[(i - 1) * Cardinality(AllowedDevices) + Rank(j)] = TaskOf(i, j)

\* C5 witness: two different API keys and two device entries of which only
\* the second is whitelisted give two tasks, the first key's first.
C5_Witness ==
    /\ pc # "idle"
    /\ Len(config.api_keys) = 2
    /\ config.api_keys[1] # config.api_keys[2]
    /\ Len(config.devices) = 2
    /\ AllowedDevices = {2}
    /\ Len(tasks) = 2
    /\ tasks[1].token = config.api_keys[1].token
    /\ tasks[2].token = config.api_keys[2].token

\* C6 (as claimed): over the same per-task outcomes the sequential run
\* returns the readings in task order, and the pool run returns a collection
\* equal as a multiset to the sequential run's, with the same failed tasks.
\* A sequential run over outcomes that make a task raise returns nothing, so
\* the claim needs every run to return and no task to raise.  Stated for
\* configurations that carry both dates.
C6_PoolEqualsSequential ==
    (Ended /\ config.has_dates) =>
      /\ pc = "done"
      /\ \A t \in TaskIds : ~fut[t].exc
      /\ max_workers = 1 => results = InOrderResults
      /\ max_workers > 1 => SeqToBag(results) = SeqToBag(InOrderResults)
      /\ SeqToBag(failed_tasks) = FailedBag

\* C7: when extract_data has returned, every task is finished and is counted
\* once: failed_tasks holds exactly the tasks that returned no reading (each
\* once), successful is the number of tasks that returned at least one,
\* successful + failed = total, records is the length of the returned
\* collection, and the rate is successful / total * 100 (0 without tasks).
C7_SummaryCounts ==
    pc = "done" =>
      /\ report.logged
      /\ \A t \in TaskIds : fut[t].st = "finished"
      /\ report.total_tasks = Len(tasks)
      /\ report.successful = Cardinality(SucceededTasks)
      /\ report.failed = Cardinality(TaskIds \ SucceededTasks)
      /\ report.successful + report.failed = report.total_tasks
      /\ SeqToBag(failed_tasks) = FailedBag
      /\ report.records = Len(results)
      /\ results = all_results
      /\ IF Len(tasks) > 0
         THEN report.rate_num * Len(tasks) = Cardinality(SucceededTasks) * 100 * report.rate_den
         ELSE report.rate_num = 0

\* C7 witness: of two tasks one returned readings and the other got a
\* well-formed 200 that yielded none (its 'values' carried only a record
\* without 'ts'): one succeeded, one failed, rate 50.
C7_Witness ==
    /\ pc = "done"
    /\ Len(tasks) = 2
    /\ \E t \in TaskIds : fut[t].ok /\ ~fut[t].exc /\ fut[t].res = <<>>
    /\ report.successful = 1
    /\ report.failed = 1
    /\ report.rate_num = 50 * report.rate_den
    /\ report.records = Len(results)
    /\ report.records > 0

\* C8: on the pool path the shared collection is, at every moment, the
\* lists of the tasks merged so far, each whole and in response order, in
\* the order they were merged (so after the run each succeeded task's
\* readings are there exactly once); the lock is held only by the collecting
\* thread while it extends the collection, never by a thread that is inside
\* a request or a sleep.
Merged == {t \in completed : Succeeded(t) /\ ~(pc = "extend" /\ t = cur)}

C8_LockedMerge ==
    /\ (max_workers > 1 /\ pc \in {"collect", "extend", "done"})
          => \E p \in Perms(Merged) : all_results = ConcatOf(p)
    /\ (max_workers > 1 /\ pc = "done") => Merged = SucceededTasks
    /\ lock = "main" => (pc = "extend" /\ cur \in completed /\ fut[cur].st = "finished")
    /\ pc # "extend" => lock = "free"

\* C8 witness: two tasks of two readings each, merged in the reverse of the
\* submission order.
C8_Witness ==
    /\ max_workers > 1
    /\ pc = "done"
    /\ Len(tasks) = 2
    /\ Len(fut[1].res) = 2
    /\ Len(fut[2].res) = 2
    /\ fut[1].res # fut[2].res
    /\ results = fut[2].res \o fut[1].res

\* C9 (as claimed): when extract_data is over, every task of the list has
\* been executed.  Stated for configurations that carry both dates.
C9_DrainsAllTasks ==
    (Ended /\ config.has_dates) => \A t \in TaskIds : fut[t].st = "finished"

\* C10: the CSV changes only in a save_to_csv step taken with a non-empty
\* self.results; a save_to_csv step with an empty self.results warns and
\* leaves the file as it was.
C10_OnlySaveWrites ==
    [][/\ (csv' # csv) => (SaveToCsv /\ results # <<>>)
       /\ (SaveToCsv /\ results = <<>>) => (csv' = csv /\ save_log' = "warned")]_vars

\* C10 witness: an extraction returned nothing, save_to_csv was called and
\* warned, and the file left by an earlier run is still as it was.
C10_Witness ==
    /\ pc = "done"
    /\ report.total_tasks > 0
    /\ results = <<>>
    /\ save_log = "warned"
    /\ summary.called
    /\ csv = StaleFile

(* ------------------------ configuration errors ------------------------ *)
\* The file is not JSON or lacks a field of the configuration file format.
ConfigError(f) ==
    \/ ~f.valid_json
    \/ f.absent # {}
    \/ f.devices # <<>> /\ f.device_absent # {}

\* A task has reached requests.get at least once.
RequestIssued ==
    \E t \in 1..Len(fut) :
        \/ fut[t].client.st \in {"request", "sleep"}
        \/ fut[t].ok
        \/ fut[t].client.attempt > 0

\* C11 (as claimed): a configuration file that is not JSON or that lacks
\* api_keys, params, request_type, start_date, end_date, devices or a
\* device's device_id/name/param is rejected by the constructor: the
\* extractor never gets past construction with it, builds no task and issues
\* no request.
C11_ConfigErrorsRejectedFirst ==
    ConfigError(config_file) =>
        /\ pc \in {"new", "rejected"}
        /\ tasks = <<>>
        /\ ~RequestIssued

(* --------------------------- quality analysis ------------------------- *)
\* The rows of the CSV file that are readings of the configured device d.
ReadingsOf(d) ==
    {i \in 1..Len(a_csv_file.rows) :
        /\ a_csv_file.rows[i].device_id = d.device_id
        /\ a_csv_file.rows[i].param_key = d.param}

\* The configuration's window is exactly 24 hours long and the CSV file
\* carries one reading of d at each of its 25 hours.
ReadingAtEveryHour(d) ==
    /\ ToUtc(a_config_file.end) - ToUtc(a_config_file.start) = Day
    /\ \A k \in 0..(Day \div Hour) :
         Cardinality({i \in ReadingsOf(d) :
             ToUtc(a_csv_file.rows[i].timestamp) = ToUtc(a_config_file.start) + k * Hour}) = 1
    /\ Cardinality(ReadingsOf(d)) = Day \div Hour + 1

\* The records of analyze_quality for the configured device d.
QualityRecordsOf(d) ==
    {i \in 1..Len(a_results) :
        /\ a_results[i].device_id = d.device_id
        /\ a_results[i].param_key = d.param}

QualityAnalyzed == analyzer = "quality" /\ analyzed

\* C12 (as claimed): for a configuration window of exactly 24 hours and a
\* configured device with one reading in the CSV at every hour of the window,
\* start and end hour included, analyze_quality reports expected_points = 25
\* and completeness_percentage = 100.0 for that device.
C12_FullDayIsComplete ==
    QualityAnalyzed =>
        \A j \in 1..Len(a_config_file.devices) :
            ReadingAtEveryHour(a_config_file.devices[j]) =>
                \E i \in QualityRecordsOf(a_config_file.devices[j]) :
                    /\ a_results[i].expected_points = 25
                    /\ a_results[i].completeness_percentage = 100 * 100

\* C13 (as claimed): a configured device with no reading inside the
\* configuration's window has a record in analyze_quality's results, with
\* completeness 0.0 and flagged "Poor Completeness".
C13_SilentDeviceReported ==
    QualityAnalyzed =>
        \A j \in 1..Len(a_config_file.devices) :
            (\A i \in 1..Len(data) :
                ~(/\ data[i].device_id = a_config_file.devices[j].device_id
                  /\ data[i].param_key = a_config_file.devices[j].param)) =>
                \E i \in QualityRecordsOf(a_config_file.devices[j]) :
                    /\ a_results[i].completeness_percentage = 0
                    /\ \E f \in 1..Len(a_results[i].quality_flags) :
                         a_results[i].quality_flags[f] = "Poor Completeness"

(* ---------------------------- trend analysis -------------------------- *)
\* The one call of _calculate_trend_variance has returned.
TrendCalled == analyzer = "trend" /\ call_result # <<>>

\* (a / b) * 100 > t and (a / b) * 100 < t for integers a, b, t with
\* b # 0, the percentage being the double the code computes.
PctAbove(a, b, t) == FGreater(FPct(a * Sgn(b), Abs(b)), t)

PctBelow(a, b, t) == FLess(FPct(a * Sgn(b), Abs(b)), t)

\* The reported number x (never infinite) is the double nearest to a / b.
ReportedIs(x, a, b) == ~x.inf /\ x.num * b = a * x.den

\* C14: for a non-zero first-period total the reported percentage_change is
\* (second - first) / first * 100, and trend_direction is 'stable' when its
\* absolute value is at most the threshold, 'increasing' when it is above
\* the threshold and 'decreasing' when it is below minus the threshold;
\* totals 100 and 150 at threshold 10 give 50.0 and 'increasing'.
C14_PercentageChangeAndDirection ==
    TrendCalled /\ call_args.period1_total # 0 =>
        LET p1 == call_args.period1_total
            p2 == call_args.period2_total
            m == call_result[1]
            up == PctAbove(p2 - p1, p1, threshold)
            down == PctBelow(p2 - p1, p1, -threshold)
        IN  /\ ReportedIs(m.percentage_change, (p2 - p1) * 100, p1)
            /\ m.trend_direction =
                 (IF up THEN "increasing" ELSE IF down THEN "decreasing" ELSE "stable")
            /\ (p1 = 100 /\ p2 = 150 /\ threshold = 10 =>
                  /\ ReportedIs(m.percentage_change, 50, 1)
                  /\ m.trend_direction = "increasing")

\* Totals 100 and 150 at threshold 10 have been compared and the result is
\* 'increasing'.
C14_Witness ==
    /\ TrendCalled
    /\ call_args = [period1_total |-> 100, period2_total |-> 150]
    /\ threshold = 10
    /\ call_result[1].trend_direction = "increasing"

\* C15: with a first-period total of 0 and a positive second-period total
\* the result has percentage_change 999.99 (a number, not an infinite
\* value), trend_direction 'significant_increase' and is_flagged true, at
\* every threshold in [0, 100].
C15_ZeroBaselineSentinel ==
    TrendCalled /\ call_args.period1_total = 0 /\ call_args.period2_total > 0 =>
        /\ ReportedIs(call_result[1].percentage_change, 99999, 100)
        /\ call_result[1].trend_direction = "significant_increase"
        /\ call_result[1].is_flagged

\* Totals 0 and 5 have been compared at the largest threshold.
C15_Witness ==
    /\ TrendCalled
    /\ call_args = [period1_total |-> 0, period2_total |-> 5]
    /\ threshold = 100
    /\ call_result[1].is_flagged

\* analyze_trends has returned.
TrendAnalyzed == analyzer = "trend" /\ analyzed

\* The change between the period totals of the record r exceeds the
\* threshold in absolute value, or the baseline is zero and the second
\* total is not.
SignificantChange(r) ==
    IF r.period1_total = 0 THEN r.period2_total # 0
    ELSE \/ PctAbove(r.period2_total - r.period1_total, r.period1_total,
                     r.threshold_used)
         \/ PctBelow(r.period2_total - r.period1_total, r.period1_total,
                     -r.threshold_used)

\* C16: a device's record is flagged if and only if the absolute percentage
\* change between its period totals exceeds the threshold or the
\* zero-baseline case applies; in every record is_flagged is true exactly
\* when trend_direction is not 'stable'.
C16_FlaggedIffSignificant ==
    TrendAnalyzed =>
        \A i \in 1..Len(a_results) :
            /\ a_results[i].threshold_used = threshold
            /\ a_results[i].is_flagged <=> SignificantChange(a_results[i])
            /\ a_results[i].is_flagged <=> a_results[i].trend_direction # "stable"

\* The results hold a flagged record of a device whose total fell by more
\* than the threshold from a non-zero baseline.
C16_Witness ==
    /\ TrendAnalyzed
    /\ \E i \in 1..Len(a_results) :
         /\ a_results[i].period1_total # 0
         /\ a_results[i].trend_direction = "decreasing"
         /\ a_results[i].is_flagged

(* ------------------------- out-of-hours analysis ---------------------- *)
\* The one call of _analyze_device_consumption has returned.
HoursCalled == analyzer = "out_of_hours" /\ call_result # <<>>

\* The sums of the day's readings inside and outside the working hours.
WorkingSum == SumValues(SelectSeq(call_args, LAMBDA r : IsWorkingHours(r.timestamp)))

OutOfHoursSum == SumValues(SelectSeq(call_args, LAMBDA r : ~IsWorkingHours(r.timestamp)))

\* The call returned a record: the device-day is flagged and reported.
DayFlagged == call_result[1] # <<>>

\* C17 (as claimed): a device-day is flagged if and only if its out-of-hours
\* sum exceeds its working-hours sum or out-of-hours sum / total * 100
\* exceeds the threshold; at threshold 30 a day with 80 in working hours and
\* 20 outside is not flagged and a day with 40 and 60 is flagged; a day
\* whose total is exactly zero is never flagged and never reported.
C17_DayFlaggedIffOutOfHours ==
    HoursCalled =>
        LET total == WorkingSum + OutOfHoursSum
        IN  /\ total = 0 => ~DayFlagged
            /\ total # 0 =>
                 (DayFlagged <=>
                    \/ OutOfHoursSum > WorkingSum
                    \/ PctAbove(OutOfHoursSum, total, threshold))
            /\ (threshold = 30 /\ WorkingSum = 80 /\ OutOfHoursSum = 20 => ~DayFlagged)
            /\ (threshold = 30 /\ WorkingSum = 40 /\ OutOfHoursSum = 60 => DayFlagged)

(* ---------------------- all three analyzers: records ------------------ *)
\* The records i and j of the results are about the same device and
\* parameter (and, for the out-of-hours analyzer, the same day).
SameSubject(i, j) ==
    /\ a_results[i].device_id = a_results[j].device_id
    /\ a_results[i].param_key = a_results[j].param_key
    /\ analyzer = "out_of_hours" => a_results[i].analysis_date = a_results[j].analysis_date

\* C18 (as claimed): in all three analyzers every result record's
\* (device_id, param_key) is the (device_id, param) of an entry of the
\* configuration's devices list, rows of other pairs contributing to no
\* record, and there is at most one record (per day, for out-of-hours) for
\* each configured pair.
C18_OneRecordPerConfiguredPair ==
    analyzed =>
        /\ \A i \in 1..Len(a_results) :
             Configured(a_config_file.devices, a_results[i].device_id, a_results[i].param_key)
        /\ \A i, j \in 1..Len(a_results) : SameSubject(i, j) => i = j

(* ------------------- all three analyzers: the window ------------------ *)
\* The columns a row has in the CSV file.
CsvColumns(r, t) == Row(r.device_name, r.device_id, r.param_key, t, r.value)

\* The rows of the CSV file whose UTC timestamp plus one hour lies between
\* the configuration's start_date and end_date, both included, each with
\* that shifted timestamp.
RowsInConfigWindow ==
    LET t(i) == a_csv_file.rows[i].timestamp.wall - a_csv_file.rows[i].timestamp.off
                  + MinutesPerHour
        kept == SelectSeq([i \in 1..Len(a_csv_file.rows) |-> i],
                          LAMBDA i : /\ a_config_file.start.wall <= t(i)
                                     /\ t(i) <= a_config_file.end.wall)
    IN  [n \in 1..Len(kept) |-> CsvColumns(a_csv_file.rows[kept[n]], t(kept[n]))]

\* C19: in each of the three analyzers the rows kept for analysis are
\* exactly the CSV rows with start_date <= t <= end_date, the bounds taken
\* from the configuration and t being the row's UTC timestamp plus one hour;
\* the rule does not depend on the analyzer, so the three keep the same rows
\* of the same files.
C19_SameWindowFilter ==
    apc = "ready" =>
        SeqToBag([i \in 1..Len(data) |-> CsvColumns(data[i], data[i].timestamp)])
            = SeqToBag(RowsInConfigWindow)

\* A constructed trend analyzer that kept a row whose shifted timestamp is
\* the window's end and dropped a row from before the window's start.
C19_Witness ==
    /\ apc = "ready"
    /\ analyzer = "trend"
    /\ Len(a_csv_file.rows) = 2
    /\ Len(data) = 1
    /\ data[1].timestamp = window.end
    /\ \E i \in 1..2 : ToUtc(a_csv_file.rows[i].timestamp) + Hour < window.start

(* ------------------- all three analyzers: empty results --------------- *)
\* The last call was a save method, made after an analysis that produced
\* no record.
SavedEmptyResults ==
    /\ analyzed
    /\ a_results = <<>>
    /\ a_error.call \in {"save_report", "save_text_report"}

\* C20 (as claimed): for each analyzer, save_report and save_text_report
\* called after an analysis with no result records complete without error
\* and write the report (where the report file can be written).
C20_EmptyResultsAreReported ==
    SavedEmptyResults /\ a_error.error # "IOError" =>
        /\ a_error.error = "none"
        /\ a_error.call = "save_report" => reports.csv # "absent"
        /\ a_error.call = "save_text_report" => reports.txt # "absent"

(* --------------------- out-of-hours analysis: records ----------------- *)
\* analyze_consumption has returned.
HoursAnalyzed == analyzer = "out_of_hours" /\ analyzed

\* The device-days the analysis looks at: the (day, device, name, parameter)
\* groups of the in-window rows whose device and parameter are configured.
AnalyzedDays ==
    {k \in {[date |-> data[i].timestamp \div Day, device_id |-> data[i].device_id,
             device_name |-> data[i].device_name, param_key |-> data[i].param_key] :
                i \in 1..Len(data)} :
        Configured(a_config_file.devices, k.device_id, k.param_key)}

\* The readings of the device-day k inside (w = TRUE) or outside the hours
\* from 07:00 to 19:00.
DaySum(k, w) ==
    SumValues(SelectSeq(data, LAMBDA r :
        /\ r.timestamp \div Day = k.date
        /\ r.device_id = k.device_id
        /\ r.device_name = k.device_name
        /\ r.param_key = k.param_key
        /\ w <=> (7 * Hour <= r.timestamp % Day /\ r.timestamp % Day < 19 * Hour)))

DayTotal(k) == DaySum(k, TRUE) + DaySum(k, FALSE)

\* The records of the results for the device-day k.
DayRecords(k) ==
    {i \in 1..Len(a_results) :
        /\ a_results[i].analysis_date = k.date
        /\ a_results[i].device_id = k.device_id
        /\ a_results[i].device_name = k.device_name
        /\ a_results[i].param_key = k.param_key}

\* C21 (as claimed): every analyzed device-day with a non-zero total has
\* exactly one record in analyze_consumption's results, whether it is
\* flagged or not.
C21_RecordPerAnalyzedDay ==
    HoursAnalyzed =>
        \A k \in AnalyzedDays :
            DayTotal(k) # 0 => Cardinality(DayRecords(k)) = 1

(* ------------------------- the back-off schedule ---------------------- *)
\* The zero-based index of the request recorded at position i of the trace,
\* counted over all requests of the call.
AttemptOf(i) == Cardinality({j \in GetIndexes : j < i})

\* The request at position i is followed by a sleep of secs seconds: the
\* sleep is the next event, or the client is inside it.
SleepsAfter(i, secs) ==
    IF i = Len(mock) THEN client.st = "sleep" /\ client.wait = secs
    ELSE mock[i + 1].ev = "sleep" /\ mock[i + 1].secs = secs

\* The request at position i is followed by no sleep.
NoSleepAfter(i) ==
    IF i = Len(mock) THEN client.st # "sleep" ELSE mock[i + 1].ev # "sleep"

\* The sleeps in seconds after a first, second and third attempt.
RateLimitSchedule == <<1, 3, 9>>

ServerErrorSchedule == <<1, 2, 4>>

ExceptionSchedule == <<1, 2>>

\* C22: with attempt the zero-based index of the request over all failure
\* classes, a 429 is followed by a sleep of 1, 3, 9 s, a 500/502/503/504 by
\* a sleep of 1, 2, 4 s, in both cases after the third attempt too; a
\* timeout or transport error is followed by a sleep of 1, 2 s while
\* attempts remain and by no sleep after the third attempt; no sleep exceeds
\* max_wait = 30 s.
C22_BackOffSchedule ==
    /\ \A i \in GetIndexes :
         LET o == mock[i].outcome
             a == AttemptOf(i)
         IN  /\ a < 3
             /\ (o.kind = "response" /\ o.status = 429) =>
                    SleepsAfter(i, RateLimitSchedule[a + 1])
             /\ (o.kind = "response" /\ o.status \in {500, 502, 503, 504}) =>
                    SleepsAfter(i, ServerErrorSchedule[a + 1])
             /\ (o.kind \in {"timeout", "error"} /\ a < 2) =>
                    SleepsAfter(i, ExceptionSchedule[a + 1])
             /\ (o.kind \in {"timeout", "error"} /\ a = 2) => NoSleepAfter(i)
    /\ \A i \in 1..Len(mock) : mock[i].ev = "sleep" => mock[i].secs <= 30
    /\ client.st = "sleep" => client.wait <= 30

\* A call that met a timeout, a 503 and a 429, in this order: it slept 1 s,
\* 2 s and, after the last attempt, 9 s, and then returned None.
C22_Witness ==
    /\ Len(mock) = 7
    /\ mock[1].ev = "get" /\ mock[1].outcome.kind = "timeout"
    /\ mock[2].ev = "sleep" /\ mock[2].secs = 1
    /\ mock[3].ev = "get" /\ mock[3].outcome.status = 503
    /\ mock[4].ev = "sleep" /\ mock[4].secs = 2
    /\ mock[5].ev = "get" /\ mock[5].outcome.status = 429
    /\ mock[6].ev = "sleep" /\ mock[6].secs = 9
    /\ ReturnedNone(7)

(* ------------------------- the worker's readings ---------------------- *)
\* The one call of _extract_device_data has ended.
WorkerCalled == analyzer = "none" /\ call_args # <<>> /\ call_result # <<>>

\* The records of the payload's 'values' (none when it is not an array).
ValuesOf(body) == IF body.is_list THEN body.values ELSE <<>>

\* One reading per record that carries 'ts' and 'v', in response order.
RECURSIVE ReadingsFor(_, _)
ReadingsFor(task, vs) ==
    IF vs = <<>> THEN <<>>
    ELSE (IF Head(vs).has_ts /\ Head(vs).has_v
          THEN <<[client_name |-> task.client_name, device_id |-> task.device_id,
                  device_name |-> task.device_name, param_key |-> task.param_key,
                  timestamp |-> Head(vs).ts, value |-> Head(vs).v]>>
          ELSE <<>>)
         \o ReadingsFor(task, Tail(vs))

\* C23 (as claimed): for a successful response _extract_device_data returns
\* one reading per record of 'values' that carries both 'ts' and 'v', in
\* response order, with the task's client_name, device_id, device_name and
\* param_key and the record's ts and v (0 and negative values kept); the
\* other records are skipped without failing the task; the task yields no
\* reading when the client signalled failure.  (Stated for the client's
\* failure value and for payloads whose 'values' is an array.)
C23_OneReadingPerValidRecord ==
    WorkerCalled /\ (call_args.response_data = NoBody \/ call_args.response_data.is_list) =>
        /\ ~call_result[1].exc
        /\ call_result[1].res =
             (IF call_args.response_data = NoBody THEN <<>>
              ELSE ReadingsFor(call_args.task, ValuesOf(call_args.response_data)))

(* ----------------------- quality analysis: flags ---------------------- *)
\* The in-window values of the device, name and parameter of the record r.
ValuesOfRecord(r) ==
    Column(SelectSeq(data, LAMBDA x : /\ x.device_id = r.device_id
                                      /\ x.device_name = r.device_name
                                      /\ x.param_key = r.param_key), "value")

HasFlag(r, f) == \E n \in 1..Len(r.quality_flags) : r.quality_flags[n] = f

\* C24: in every quality record 'Poor Completeness' is set iff
\* actual_points / expected_points * 100 < 90, 'High Zero Values' iff
\* zero_count / actual_points * 100 > 10, 'Negative Values' iff at least one
\* in-window value is negative, and is_flagged iff a flag is set;
\* expected_points is the whole hours between the configuration's start and
\* end plus one, the same for every device; the counts are those of the
\* device's in-window rows.
C24_QualityFlagRule ==
    QualityAnalyzed =>
        \A i \in 1..Len(a_results) :
            LET r == a_results[i]
                vs == ValuesOfRecord(r)
            IN  /\ r.expected_points
                     = (a_config_file.end.wall - a_config_file.start.wall) \div MinutesPerHour + 1
                /\ r.actual_points = Len(vs)
                /\ r.zero_count = Cardinality({n \in 1..Len(vs) : vs[n] = 0})
                /\ HasFlag(r, "Poor Completeness")
                     <=> r.actual_points * 100 < 90 * r.expected_points
                /\ HasFlag(r, "High Zero Values")
                     <=> r.zero_count * 100 > 10 * r.actual_points
                /\ HasFlag(r, "Negative Values") <=> \E n \in 1..Len(vs) : vs[n] < 0
                /\ r.is_flagged <=> r.quality_flags # <<>>
                /\ \A n \in 1..Len(r.quality_flags) :
                     r.quality_flags[n]
                        \in {"Poor Completeness", "High Zero Values", "Negative Values"}

\* A window of 24 hours and a half: 25 expected points, and a record with a
\* negative reading that is flagged for it and for its completeness.
C24_Witness ==
    /\ QualityAnalyzed
    /\ window.end - window.start = Day + 30
    /\ \E i \in 1..Len(a_results) :
         /\ a_results[i].expected_points = 25
         /\ a_results[i].quality_flags = <<"Poor Completeness", "Negative Values">>
         /\ a_results[i].is_flagged

(* ------------------------ trend analysis: split ----------------------- *)
\* The in-window rows of the device, name and parameter of the record r.
RowsOfRecord(r) ==
    SelectSeq(data, LAMBDA x : /\ x.device_id = r.device_id
                               /\ x.device_name = r.device_name
                               /\ x.param_key = r.param_key)

\* The rows of the group at or before (first = TRUE) or after the midpoint
\* min + (max - min) / 2 of the group's own timestamps.
HalfOf(rows, first) ==
    LET ts == {rows[n].timestamp : n \in 1..Len(rows)}
        lo == CHOOSE t \in ts : \A u \in ts : t <= u
        hi == CHOOSE t \in ts : \A u \in ts : u <= t
    IN  SelectSeq(rows, LAMBDA x : first <=> (2 * (x.timestamp - lo) <= hi - lo))

\* C25: each device/parameter group is split at the midpoint of its own
\* in-window timestamps: rows at or before it are period 1, rows after it
\* period 2; every row is in exactly one period, period1_count +
\* period2_count = total_data_points, period 1 is never empty, and a group
\* whose rows share one timestamp has an empty period 2 with total 0.
C25_SplitAtOwnMidpoint ==
    TrendAnalyzed =>
        \A i \in 1..Len(a_results) :
            LET r == a_results[i]
                rows == RowsOfRecord(r)
                first == HalfOf(rows, TRUE)
                second == HalfOf(rows, FALSE)
            IN  /\ r.total_data_points = Len(rows)
                /\ r.period1_count = Len(first)
                /\ r.period2_count = Len(second)
                /\ r.period1_total = SumValues(first)
                /\ r.period2_total = SumValues(second)
                /\ r.period1_count + r.period2_count = r.total_data_points
                /\ r.period1_count > 0
                /\ (\A m, n \in 1..Len(rows) : rows[m].timestamp = rows[n].timestamp)
                     => r.period2_count = 0 /\ r.period2_total = 0

\* A record of two rows seven hours apart at the start of a seven-day
\* window: one row in each period, although both lie in the first half of
\* the configuration's window.
C25_Witness ==
    /\ TrendAnalyzed
    /\ \E i \in 1..Len(a_results) :
         /\ a_results[i].period1_count = 1
         /\ a_results[i].period2_count = 1
         /\ \A n \in 1..Len(data) : 2 * data[n].timestamp < window.start + window.end

(* ------------------ out-of-hours analysis: classification ------------- *)
\* The values of the rows of the record r's device-day that are inside
\* (w = TRUE) or outside the working hours by the is_working_hours column.
ClassSum(r, w) ==
    SumValues(SelectSeq(data, LAMBDA x :
        /\ x.date = r.analysis_date
        /\ x.device_id = r.device_id
        /\ x.device_name = r.device_name
        /\ x.param_key = r.param_key
        /\ x.is_working_hours = w))

\* C26: a reading is classified as working-hours iff its time of day t
\* (after the shift of one hour at load) satisfies 07:00 <= t < 19:00,
\* whatever the day; each in-window reading is in exactly one of the two
\* classes, and a device-day's total is the sum of the two classes' sums.
C26_WorkingHoursHalfOpen ==
    analyzer = "out_of_hours" /\ apc = "ready" =>
        /\ \A n \in 1..Len(data) :
             /\ data[n].is_working_hours \in BOOLEAN
             /\ data[n].is_working_hours
                  <=> (7 * 60 <= data[n].timestamp % (24 * 60)
                       /\ data[n].timestamp % (24 * 60) < 19 * 60)
        /\ \A i \in 1..Len(a_results) :
             /\ a_results[i].working_hours_consumption = ClassSum(a_results[i], TRUE)
             /\ a_results[i].out_of_hours_consumption = ClassSum(a_results[i], FALSE)
             /\ a_results[i].total_consumption
                  = ClassSum(a_results[i], TRUE) + ClassSum(a_results[i], FALSE)

\* An analysis of a full hourly series: the 07:00 reading counts as working
\* hours, the 19:00 reading does not, and the day is reported.
C26_Witness ==
    /\ HoursAnalyzed
    /\ \E n \in 1..Len(data) :
         data[n].timestamp % Day = 7 * Hour /\ data[n].is_working_hours
    /\ \E n \in 1..Len(data) :
         data[n].timestamp % Day = 19 * Hour /\ ~data[n].is_working_hours
    /\ a_results # <<>>

(* ------------- SpecWorkflow: one run of WeeklyCheck.py ----------------- *)
\* CONFIG_FILE as the extractor loads it: one API key, device 1 and its
\* parameter, with or without start_date / end_date.
WorkflowConfigs ==
    { [api_keys |-> <<k>>, devices |-> <<Dev(1)>>, params |-> {"EACTIVE"},
       has_dates |-> hd] : k \in KeyEntries, hd \in BOOLEAN }

\* CONFIG_FILE as the analyzers load it: the same file, its dates a window
\* of seven days.
WorkflowConfigFile(cfg) ==
    AnalyzerFile(TRUE, TRUE, IF cfg.has_dates THEN {} ELSE {"start_date", "end_date"},
                 WindowOf(WindowStart, Week, 0), cfg.devices)

\* The 'ts' string of an API record as a timestamp: the hour of the window
\* it names, in UTC.
TsStamp(ts) == Stamp(WindowStart + ts * Hour, 0)

\* OUTPUT_CSV as an analyzer's pd.read_csv finds it: the rows save_to_csv
\* wrote under its fieldnames, the timestamp strings as the API gave them
\* (a file that ends in a cut row is never read: the failed save has ended
\* the script).
ReadOutputCsv(file) ==
    CsvFile(file.exists, TRUE,
            [i \in 1..Len(file.rows) |->
                [file.rows[i] EXCEPT !.timestamp = TsStamp(file.rows[i].timestamp)]])

\* The thresholds the script passes (the quality analyzer takes none).
WorkflowThreshold(an) ==
    CASE an = "trend" -> 10
      [] an = "out_of_hours" -> 30
      [] OTHER -> 0

\* The analyzer whose step precedes an's step in the script.
StepBefore(an) ==
    CASE an = "quality" -> "none"
      [] an = "trend" -> "quality"
      [] OTHER -> "trend"

\* The script starts: the extractor is constructed with the default
\* max_workers of 5; outputs/ holds no CSV or one left by an earlier run.
InitWorkflow ==
    /\ \E cfg \in WorkflowConfigs, file \in {NoFile, StaleFile} :
         Constructed(cfg, 5, file)
    /\ client = IdleClient
    /\ mock = <<>>
    /\ NoAnalyzer

\* Step 1, line 48: extractor.save_to_csv(OUTPUT_CSV).
WorkflowSave ==
    /\ pc = "done"
    /\ save_log = "none"
    /\ SaveToCsv

\* Step 1, line 52: extractor.get_summary().
WorkflowSummary ==
    /\ pc = "done"
    /\ save_log \in {"saved", "warned"}
    /\ ~summary.called
    /\ GetSummary

\* Step 1, lines 55-57: an exception of the try block ends the script.
WorkflowExit ==
    /\ \/ pc = "raised"
       \/ pc = "done" /\ save_log = "ioerror"
    /\ pc' = "exited"
    /\ UNCHANGED <<config, max_workers, results, lock, tasks, all_results,
                   failed_tasks, cur, submitted, completed, fut, report, csv,
                   save_log, summary, client, mock, config_file, analysis_vars>>

\* analyze_quality / analyze_trends / analyze_consumption on a constructed
\* analyzer.
AnalysisResults(an, rows, devices, w, th) ==
    CASE an = "quality" -> AnalyzeQuality(rows, devices, w)
      [] an = "trend" -> AnalyzeTrends(rows, devices, w, th)
      [] OTHER -> AnalyzeConsumption(rows, devices, w, th)

\* Steps 2 to 4: one try block.  The analyzer is constructed on CONFIG_FILE
\* and OUTPUT_CSV as they are in the folders now, the analysis runs, and
\* the two reports are saved, save_report first; an exception (ValueError
\* without results, IOError of a save) ends the block, not the script.
WorkflowAnalysis(an) ==
    /\ pc = "done"
    /\ summary.called
    /\ analyzer = StepBefore(an)
    /\ analyzer' = an
    /\ threshold' = WorkflowThreshold(an)
    /\ a_config_file' = WorkflowConfigFile(config)
    /\ a_csv_file' = ReadOutputCsv(csv)
    /\ LET o == AnalyzerInit(an, threshold', a_config_file', a_csv_file')
           rs == AnalysisResults(an, o.data, a_config_file'.devices, o.window,
                                 threshold')
       IN  /\ a_reads' = o.reads
           /\ window' = o.window
           /\ data' = o.data
           /\ IF o.error # "none"
              THEN /\ apc' = "rejected"
                   /\ a_error' = Call("__init__", o.error)
                   /\ a_results' = <<>>
                   /\ analyzed' = FALSE
                   /\ reports' = NoReports
              ELSE /\ apc' = "ready"
                   /\ a_results' = rs
                   /\ analyzed' = TRUE
                   /\ IF NoResultsToSave(rs)
                      THEN /\ a_error' = Call("save_report", "ValueError")
                           /\ reports' = NoReports
                      ELSE \E io1, io2 \in ReportIo :
                             IF io1 # "ok"
                             THEN /\ io2 = "ok"
                                  /\ a_error' = Call("save_report", "IOError")
                                  /\ reports' =
                                       [csv |-> WriteReport("absent", "records", io1),
                                        txt |-> "absent"]
                             ELSE /\ a_error' = Call("save_text_report", SaveError(io2))
                                  /\ reports' =
                                       [csv |-> "records",
                                        txt |-> WriteReport("absent", "full_report", io2)]
    /\ UNCHANGED <<call_args, call_result, engine_vars, client, mock>>

NextWorkflow ==
    \/ ExtractData
    \/ Submit
    \/ \E t \in TaskIds : PoolStart(t)
    \/ \E t \in TaskIds : TaskRequest(t)
    \/ \E t \in TaskIds : TaskSleep(t)
    \/ \E t \in TaskIds : Collect(t)
    \/ Extend
    \/ StoreResults
    \/ WorkflowSave
    \/ WorkflowSummary
    \/ WorkflowExit
    \/ \E an \in Analyzers : WorkflowAnalysis(an)

SpecWorkflow == InitWorkflow /\ [][NextWorkflow]_vars

(* ---------------------- the workflow's CSV hand-over ------------------ *)
\* C27: when a step of one run of the workflow analyses OUTPUT_CSV, the
\* file it reads was written by the save_to_csv call of the same run, from
\* the readings that run's extract_data returned.
C27_AnalysesReadThisRunsCsv ==
    analyzer \in Analyzers /\ "csv" \in a_reads /\ a_csv_file.exists =>
        /\ save_log = "saved"
        /\ a_csv_file = ReadOutputCsv([exists |-> TRUE, rows |-> results, cut |-> FALSE])

\* The case C27 fails on: extraction returned nothing, save_to_csv warned,
\* the script went on, and the analyzers took the file of an earlier run.
C27_StaleCsvAnalysed ==
    /\ analyzer = "out_of_hours"
    /\ results = <<>>
    /\ save_log = "warned"
    /\ a_csv_file = ReadOutputCsv(StaleFile)
    /\ "csv" \in a_reads

(* ------------- SpecRerun: extract_data called again and again --------- *)
\* One API key and one or two whitelisted devices, both dates present.
RerunConfigs ==
    { [api_keys |-> <<k>>, devices |-> ds, params |-> ParamKeys, has_dates |-> TRUE] :
        k \in {x \in KeyEntries : x.has_client_name}, ds \in AnalysisDeviceLists }

\* A new extractor; call_args remembers self.results at the start of a call.
InitRerun ==
    /\ \E cfg \in RerunConfigs, mw \in 1..MaxWorkers :
         /\ (mw > 1 => Len(cfg.devices) = 1)
         /\ Constructed(cfg, mw, NoFile)
    /\ client = IdleClient
    /\ mock = <<>>
    /\ analyzer = "none"
    /\ a_config_file = <<>>
    /\ a_csv_file = <<>>
    /\ threshold = 0
    /\ apc = "new"
    /\ a_error = Call("none", "none")
    /\ a_reads = {}
    /\ window = NoWindow
    /\ data = <<>>
    /\ a_results = <<>>
    /\ analyzed = FALSE
    /\ reports = NoReports
    /\ call_args = [results |-> <<>>]
    /\ call_result = <<>>

\* extract_data called on an extractor whose earlier call returned or
\* raised: lines 282-313 run as in the first call, on fresh locals;
\* self.results is not touched.
ExtractDataAgain ==
    /\ pc \in {"done", "raised"}
    /\ tasks' = BuildTasks(config.api_keys, config.devices, config.params)
    /\ all_results' = <<>>
    /\ failed_tasks' = <<>>
    /\ fut' = [t \in 1..Len(tasks') |-> NewFuture]
    /\ cur' = 1
    /\ submitted' = 0
    /\ completed' = {}
    /\ pc' = IF max_workers = 1 THEN "seq"
             ELSE IF Len(tasks') = 0 THEN "collect" ELSE "submit"
    /\ call_args' = [results |-> results]
    /\ UNCHANGED <<config, max_workers, results, lock, report, csv, save_log,
                   summary, client, mock, config_file, analyzer, a_config_file,
                   a_csv_file, threshold, apc, a_error, a_reads, window, data,
                   a_results, analyzed, reports, call_result>>

NextRerun ==
    \/ ExtractData
    \/ ExtractDataAgain
    \/ SeqCall
    \/ SeqReturn
    \/ Submit
    \/ \E t \in TaskIds : PoolStart(t)
    \/ \E t \in TaskIds : TaskRequest(t)
    \/ \E t \in TaskIds : TaskSleep(t)
    \/ \E t \in TaskIds : Collect(t)
    \/ Extend
    \/ StoreResults

SpecRerun == InitRerun /\ [][NextRerun]_vars

(* ---------------------- the stored result collection ------------------ *)
\* C28: self.results is replaced as a whole and only when every task has
\* finished.  While an extract_data call runs, and after a call that an
\* exception aborted, it is what it was when the call began (the result of
\* the previous call, or the initial empty list); after a call that
\* returned it is the readings of that call's tasks and nothing else, so a
\* second call neither keeps nor duplicates the first call's readings.
C28_ResultsReplacedWhole ==
    /\ pc \in {"seq", "submit", "collect", "extend", "raised"}
          => results = call_args.results
    /\ pc = "idle" => results = <<>>
    /\ pc = "done" =>
          /\ \A t \in TaskIds : fut[t].st = "finished"
          /\ results = all_results
          /\ SeqToBag(results) = SeqToBag(InOrderResults)

\* A second call has returned fewer readings than the first, and they are
\* all that is stored.
C28_Witness ==
    /\ pc = "done"
    /\ Len(call_args.results) = 2
    /\ Len(results) = 1
    /\ results[1] \notin {call_args.results[i] : i \in 1..2}

\* A second call is under way with readings collected, or was aborted by
\* an exception, and the first call's result is still the stored one.
C28_WitnessDuringCall ==
    /\ call_args.results # <<>>
    /\ results = call_args.results
    /\ \/ pc = "collect" /\ all_results # <<>> /\ all_results # results
       \/ pc = "raised"

(* ---------------- trend direction and the sign of the change ---------- *)
\* C29: in the result of a comparison, trend_direction 'increasing' comes
\* with a second-period total above the first (absolute_difference > 0)
\* and 'decreasing' with a second-period total below it, whatever the sign
\* of the first-period total.
C29_DirectionAgreesWithSign ==
    TrendCalled =>
        LET m == call_result[1]
        IN  /\ m.trend_direction = "increasing" =>
                 /\ call_args.period2_total > call_args.period1_total
                 /\ m.absolute_difference > 0
            /\ m.trend_direction = "decreasing" =>
                 /\ call_args.period2_total < call_args.period1_total
                 /\ m.absolute_difference < 0

\* The case C29 fails on: totals -100 and -150, a fall that the division by
\* a negative baseline turns into +50 per cent.
C29_NegativeBaselineFall ==
    /\ TrendCalled
    /\ call_args = [period1_total |-> -100, period2_total |-> -150]
    /\ threshold = 10
    /\ call_result[1].trend_direction = "increasing"
    /\ call_result[1].absolute_difference = -50

(* ------------- SpecTrendWide: the same call on larger totals ---------- *)
\* Period totals up to the pair 10000/109999, a change of 999.99 per cent.
WideBaselines == {-10000, 0, 5, 10000}

WideTotals == WideBaselines \cup {109999}

InitTrendWide ==
    /\ \E th \in TrendThresholds : HelperObject("trend", th)
    /\ call_args \in [period1_total : WideBaselines, period2_total : WideTotals]

SpecTrendWide == InitTrendWide /\ [][CallTrendVariance]_vars

(* ------------------------ the zero-baseline cases --------------------- *)
\* C30: totals 0 and 0 give percentage_change 0.0, 'stable' and no flag;
\* a first-period total of 0 with any other second-period total, negative
\* ones included, gives 999.99, 'significant_increase' and a flag; and
\* 999.99 is reported in no other case.
C30_ZeroBaselineCases ==
    TrendCalled =>
        LET p1 == call_args.period1_total
            p2 == call_args.period2_total
            m == call_result[1]
        IN  /\ (p1 = 0 /\ p2 = 0) =>
                 /\ ReportedIs(m.percentage_change, 0, 1)
                 /\ m.trend_direction = "stable"
                 /\ ~m.is_flagged
            /\ (p1 = 0 /\ p2 # 0) =>
                 /\ ReportedIs(m.percentage_change, 99999, 100)
                 /\ m.trend_direction = "significant_increase"
                 /\ m.is_flagged
            /\ ReportedIs(m.percentage_change, 99999, 100) => (p1 = 0 /\ p2 # 0)

\* The case C30 fails on: totals 10000 and 109999, whose change is 999.99
\* per cent, reported like the zero-baseline case but 'increasing'.
C30_GenuineChangeLooksLikeSentinel ==
    /\ TrendCalled
    /\ call_args = [period1_total |-> 10000, period2_total |-> 109999]
    /\ ReportedIs(call_result[1].percentage_change, 99999, 100)
    /\ call_result[1].trend_direction = "increasing"

====
